---- MODULE Spec2Model ----
(***************************************************************************)
(* Brent oil change point analysis: a model of BayesianChangePointModel    *)
(* (src/src/models/change_point_model.py), of EventAssociator              *)
(* (src/src/models/event_association.py), of BrentOilDataLoader and        *)
(* TimeSeriesAnalyzer (src/src/data_processing), of the DataService and    *)
(* the routes of the API (src/backend/api) and of the association script   *)
(* (src/notebooks/02d_associate_events.py).                                *)
(*                                                                         *)
(* Real numbers are fixed-point integers.  R-hat values are in hundredths  *)
(* (101 is 1.01), means are exact fractions [num, den].  A variable name   *)
(* is the sequence of its tokens: "cp::tau" is <<"cp", "::", "tau">>.       *)
(* The PyMC/ArviZ backend is a nondeterministic choice over the outcomes   *)
(* it can deliver to the code.                                             *)
(***************************************************************************)
EXTENDS Integers, Sequences, FiniteSets, TLC

VARIABLES
    constructed,   \* a BayesianChangePointModel instance exists
    n_obs,         \* self.n_obs
    data_index,    \* self.data_index: the index of the data series
    model_name,    \* self.model_name
    model,         \* self.model (NULL until build_model)
    trace,         \* self.trace (NULL until a sample call succeeds)
    events,        \* EventAssociator.events (NULL until the catalogue is loaded)
    argsort_ties,  \* how the platform's default argsort orders equal keys
    first_nearby,  \* history: the first event search made and what it returned
    fs,            \* the files of the project: data/ and reports/
    loader,        \* BrentOilDataLoader.data (NULL until a load succeeds)
    analyzer,      \* TimeSeriesAnalyzer.data (NULL until one is constructed)
    data_service,  \* the DataService of the API and its requests in flight
    rng,           \* the stream of the sampler's generator for each seeded call
    sampled,       \* history: the seeded sample calls made and what they returned
    ret            \* outcome of the last call: what the caller observes

vars == <<constructed, n_obs, data_index, model_name, model, trace,
          events, argsort_ties, first_nearby,
          fs, loader, analyzer, data_service, rng, sampled, ret>>

\* the state outside the model instance and the EventAssociator
backend == <<fs, loader, analyzer, data_service, rng, sampled>>

\* the state of the EventAssociator and of its platform
associator == <<events, argsort_ties, first_nearby>>

\* None: unequal to every model and every trace
NULL == [none |-> TRUE]

\* nothing outside the model instance and the EventAssociator is in use
NoBackend ==
    /\ fs = NULL
    /\ loader = NULL
    /\ analyzer = NULL
    /\ data_service = NULL
    /\ rng = NULL
    /\ sampled = {}

(***************************************************************************)
(* Bounds of the model and constants of the program                        *)
(***************************************************************************)
MaxObs == 11        \* longest observation series tried
MaxChains == 2      \* largest chains argument of sample
MaxDraws == 2       \* largest draws argument of sample
MaxSamples == 4     \* largest chains * draws tried
MaxVars == 4        \* most variables in a trace whose names are varied
HdiDraws == 22      \* most draws of the one-chain traces behind the interval
MaxEvents == 3      \* most rows of the event catalogue
MaxRepeats == 2     \* most repeated searches that are counted
MinObs == 10        \* len(data) < 10 is rejected
RHatThreshold == 101 \* 1.01 in hundredths
HdiProb == 95       \* hdi_prob = 0.95, in percent

DataLengths == (MinObs - 2)..MaxObs
ModelNames == {"", "cp"}
NaN == -1           \* not-a-number: compares false with everything
FirstDay == 100     \* the date of the first observation

(***************************************************************************)
(* Sequence and arithmetic helpers                                         *)
(***************************************************************************)
RECURSIVE SumSeq(_)
SumSeq(s) == IF s = <<>> THEN 0 ELSE Head(s) + SumSeq(Tail(s))

Range(s) == {s[k] : k \in DOMAIN s}

\* np.mean as an exact fraction
np_mean(s) == [num |-> SumSeq(s), den |-> Len(s)]

\* equality and difference of fractions with positive denominators
FracEq(a, b) == a.num * b.den = b.num * a.den
FracSub(a, b) == [num |-> a.num * b.den - b.num * a.den, den |-> a.den * b.den]

\* values.flatten() of a chains x draws array: row-major, chain by chain
flatten(m, chains, draws) ==
    [k \in 1..(chains * draws) |-> m[((k - 1) \div draws) + 1][((k - 1) % draws) + 1]]

\* str.endswith on token sequences
endswith(var, suffix) ==
    /\ Len(var) >= Len(suffix)
    /\ SubSeq(var, Len(var) - Len(suffix) + 1, Len(var)) = suffix

\* the name PyMC gives a variable of a named model: "<model_name>::<name>"
name_for(mname, name) == IF mname = "" THEN <<name>> ELSE <<mname, "::", name>>

(***************************************************************************)
(* __init__                                                                *)
(***************************************************************************)
\* A date is the number of its day.  The index of a series of business-day
\* prices: five consecutive days, then two days without an observation
date_of_row(k) == FirstDay + k + 2 * (k \div 5)

\* the index of the data series: the dates of the observations, or the row
\* numbers 0..len-1 of a series that was built without dates
DatetimeIndex(len) == [kind |-> "DatetimeIndex", labels |-> [k \in 1..len |-> date_of_row(k - 1)]]
RangeIndex(len) == [kind |-> "RangeIndex", labels |-> [k \in 1..len |-> k - 1]]
DataIndexes(len) == {DatetimeIndex(len), RangeIndex(len)}

too_short_off_by_one(len) == len <= MinObs

too_short(len) == len < MinObs

Construct(len, mname, index) ==
    /\ ~constructed
    /\ IF too_short(len)
       THEN /\ ret' = [op |-> "__init__", status |-> "error",
                       error |-> "Data must contain at least 10 observations",
                       len |-> len]
            /\ UNCHANGED <<constructed, n_obs, data_index, model_name, model, trace, associator, backend>>
       ELSE /\ constructed' = TRUE
            /\ n_obs' = len
            /\ data_index' = index
            /\ model_name' = mname
            /\ model' = NULL
            /\ trace' = NULL
            /\ ret' = [op |-> "__init__", status |-> "ok", len |-> len]
            /\ UNCHANGED <<associator, backend>>

(***************************************************************************)
(* build_model                                                             *)
(***************************************************************************)
tau_lower == 1
tau_upper_inclusive(n) == n

tau_upper(n) == n - 1
tau_initval(n) == n \div 2

\* pm.math.switch(tau >= np.arange(n_obs), mu1, mu2), element i
switch(tau, i) == IF tau >= i THEN "mu1" ELSE "mu2"

pm_Model(n, mname) ==
    [name |-> mname,
     lower |-> tau_lower,
     upper |-> tau_upper(n),
     initval |-> tau_initval(n),
     mu |-> [tau \in tau_lower..tau_upper(n) |-> [i \in 0..(n - 1) |-> switch(tau, i)]]]

build_model ==
    /\ constructed
    /\ model' = pm_Model(n_obs, model_name)
    /\ ret' = [op |-> "build_model", status |-> "ok"]
    /\ UNCHANGED <<constructed, n_obs, data_index, model_name, trace, associator, backend>>

(***************************************************************************)
(* sample                                                                  *)
(***************************************************************************)
RequestedNames == <<"tau", "mu1", "mu2", "sigma">>

const_array(chains, draws, v) == [c \in 1..chains |-> [d \in 1..draws |-> v]]

\* values of tau the sampler can return: inside the prior's support, of
\* which the two ends and the initial value are tried
TauPoints(m) == {m.lower, m.initval, m.upper}

\* the InferenceData that pm.sample returns for the built model: one
\* chains x draws array per free variable, named by the model
InferenceData(m, chains, draws, taus) ==
    LET tau == name_for(m.name, "tau")
        others == {name_for(m.name, "mu1"), name_for(m.name, "mu2"),
                   name_for(m.name, "sigma")}
    IN  [chains |-> chains,
         draws |-> draws,
         vars |-> [k \in 1..4 |-> name_for(m.name, RequestedNames[k])],
         posterior |-> [v \in others \cup {tau} |->
                           IF v = tau THEN taus ELSE const_array(chains, draws, 1)],
         r_hat |-> [v \in others \cup {tau} |-> 100],
         has_r_hat |-> TRUE]

ModelTraces(m, chains, draws) ==
    {InferenceData(m, chains, draws, taus) :
        taus \in [1..chains -> [1..draws -> TauPoints(m)]]}

\* pm.sample either raises or returns a trace
pm_sample(m, draws, chains) ==
    {[raised |-> TRUE]} \cup
    {[raised |-> FALSE, trace |-> t] : t \in ModelTraces(m, chains, draws)}

trace_cleared_on_failure(old, outcome) == IF outcome.raised THEN NULL ELSE outcome.trace

\* self.trace = pm.sample(...): the assignment happens only when the call returns
trace_after_sample(old, outcome) == IF outcome.raised THEN old ELSE outcome.trace

\* backend invocations made by one sample call
pm_sample_invocations(m) == IF m = NULL THEN 0 ELSE 1

\* sample without the "model is None" check: the backend is entered at once
sample_unguarded(draws, chains) ==
    /\ constructed
    /\ \E outcome \in {[raised |-> TRUE]} \cup
                      (IF model = NULL THEN {}
                       ELSE {[raised |-> FALSE, trace |-> t] :
                                t \in ModelTraces(model, chains, draws)}) :
       /\ trace' = trace_after_sample(trace, outcome)
       /\ ret' = IF outcome.raised
                 THEN [op |-> "sample", status |-> "error",
                       error |-> "Error during sampling", pm_calls |-> 1]
                 ELSE [op |-> "sample", status |-> "ok", pm_calls |-> 1,
                       value |-> outcome.trace]
    /\ UNCHANGED <<constructed, n_obs, data_index, model_name, model, associator, backend>>

sample(draws, chains) ==
    /\ constructed
    /\ IF model = NULL
       THEN /\ ret' = [op |-> "sample", status |-> "error",
                       error |-> "Model must be built before sampling",
                       pm_calls |-> pm_sample_invocations(model)]
            /\ UNCHANGED trace
       ELSE \E outcome \in pm_sample(model, draws, chains) :
            /\ trace' = trace_after_sample(trace, outcome)
            /\ ret' = IF outcome.raised
                      THEN [op |-> "sample", status |-> "error",
                            error |-> "Error during sampling",
                            pm_calls |-> pm_sample_invocations(model)]
                      ELSE [op |-> "sample", status |-> "ok",
                            pm_calls |-> pm_sample_invocations(model),
                            value |-> outcome.trace]
    /\ UNCHANGED <<constructed, n_obs, data_index, model_name, model, associator, backend>>

(***************************************************************************)
(* check_convergence                                                       *)
(***************************************************************************)
name_matches_verbatim(var, req_name) == var = <<req_name>>

\* var.endswith(f"::{req_name}") or var == req_name
name_matches(var, req_name) == endswith(var, <<"::", req_name>>) \/ var = <<req_name>>

\* the inner loop of find_vars: the first available variable that matches
first_match(available_vars, req_name) ==
    LET hits == {k \in DOMAIN available_vars : name_matches(available_vars[k], req_name)}
    IN  IF hits = {} THEN <<>>
        ELSE <<available_vars[CHOOSE k \in hits : \A j \in hits : k <= j]>>

RECURSIVE find_vars(_, _)
find_vars(requested_names, available_vars) ==
    IF requested_names = <<>> THEN <<>>
    ELSE first_match(available_vars, Head(requested_names))
         \o find_vars(Tail(requested_names), available_vars)

\* if not var_names: var_names = available_vars
resolve_var_names(found_vars, available_vars) ==
    IF found_vars = <<>> THEN available_vars ELSE found_vars

less_or_equal(r, bound) == r # NaN /\ r <= bound

\* r < 1.01 on floats: false when r is NaN
less_than(r, bound) == r # NaN /\ r < bound

any_below(r_hat) == \E v \in DOMAIN r_hat : less_than(r_hat[v], RHatThreshold)

\* all(r < 1.01 for r in r_hat.values())
all_below(r_hat) == \A v \in DOMAIN r_hat : less_than(r_hat[v], RHatThreshold)

\* az.summary(trace, var_names=var_names if var_names else None): one row
\* per named variable, or per variable of the trace when no name is given,
\* with the r_hat column when the backend computes it
az_summary(t, var_names) ==
    LET index == IF var_names = <<>> THEN t.vars ELSE var_names
    IN  [index |-> index,
         has_r_hat |-> t.has_r_hat,
         r_hat |-> [v \in Range(index) |-> t.r_hat[v]]]

convergence_results(t, summary) ==
    [converged |-> IF summary.has_r_hat
                   THEN (IF all_below(summary.r_hat) THEN "True" ELSE "False")
                   ELSE "None",
     r_hat |-> IF summary.has_r_hat THEN summary.r_hat ELSE <<>>,
     summary |-> summary,
     available_vars |-> t.vars]

check_convergence ==
    /\ constructed
    /\ IF trace = NULL
       THEN ret' = [op |-> "check_convergence", status |-> "error",
                    error |-> "No trace available"]
       ELSE LET var_names == resolve_var_names(find_vars(RequestedNames, trace.vars),
                                               trace.vars)
            IN  ret' = [op |-> "check_convergence", status |-> "ok",
                        value |-> convergence_results(trace,
                                                      az_summary(trace, var_names))]
    /\ UNCHANGED <<constructed, n_obs, data_index, model_name, model, trace, associator, backend>>

(***************************************************************************)
(* get_change_point_posterior                                              *)
(***************************************************************************)
MinOf(S) == CHOOSE x \in S : \A y \in S : x <= y
MaxOf(S) == CHOOSE x \in S : \A y \in S : x >= y

RECURSIVE SortedSeqOf(_)
SortedSeqOf(S) ==
    IF S = {} THEN <<>> ELSE <<MinOf(S)>> \o SortedSeqOf(S \ {MinOf(S)})

Count(s, v) == Cardinality({k \in DOMAIN s : s[k] = v})

Reverse(s) == [k \in 1..Len(s) |-> s[Len(s) + 1 - k]]

\* the elements of s at the positions idx, in the order of s
Pick(s, idx) == LET order == SortedSeqOf(idx) IN [k \in 1..Len(order) |-> s[order[k]]]

RECURSIVE repeat(_, _)
repeat(v, n) == IF n = 0 THEN <<>> ELSE <<v>> \o repeat(v, n - 1)

\* each of the ascending values as often as it occurs in s
RECURSIVE sorted_runs(_, _)
sorted_runs(values, s) ==
    IF values = <<>> THEN <<>>
    ELSE repeat(Head(values), Count(s, Head(values))) \o sorted_runs(Tail(values), s)

\* np.sort
np_sort(s) == sorted_runs(SortedSeqOf(Range(s)), s)

\* int(np.median(samples)) for positive samples: the middle of the sorted
\* samples, or the truncated average of the two middle ones
int_median(s) ==
    LET sorted == np_sort(s)
        n == Len(s)
    IN  IF n % 2 = 1 THEN sorted[(n + 1) \div 2]
        ELSE (sorted[n \div 2] + sorted[(n \div 2) + 1]) \div 2

\* the most frequent values in the order they are first seen in the samples
pd_mode_first_seen(s) ==
    LET top == MaxOf({Count(s, v) : v \in Range(s)})
        firsts == {k \in DOMAIN s : Count(s, s[k]) = top
                                    /\ \A j \in 1..(k - 1) : s[j] # s[k]}
    IN  Pick(s, firsts)

\* pd.Series(samples).mode(): the most frequent values, sorted ascending
pd_mode(s) ==
    LET top == MaxOf({Count(s, v) : v \in Range(s)})
    IN  SortedSeqOf({v \in Range(s) : Count(s, v) = top})

\* int(np.floor(hdi_prob * n)): the index distance between the two ends
interval_idx_inc(n) == (HdiProb * n) \div 100

\* the widest of the candidate windows instead of the narrowest
az_hdi_widest(s) ==
    LET ary == np_sort(s)
        inc == interval_idx_inc(Len(ary))
        n_intervals == Len(ary) - inc
        interval_width == [k \in 1..n_intervals |-> ary[k + inc] - ary[k]]
        max_idx == CHOOSE k \in 1..n_intervals :
                       \A j \in 1..n_intervals :
                           \/ interval_width[k] > interval_width[j]
                           \/ interval_width[k] = interval_width[j] /\ k <= j
    IN  <<ary[max_idx], ary[max_idx + inc]>>

\* az.hdi(samples, hdi_prob=0.95) of a one-dimensional array: among the
\* windows of the sorted samples whose ends are interval_idx_inc apart, the
\* first one of the smallest width (np.argmin)
az_hdi(s) ==
    LET ary == np_sort(s)
        inc == interval_idx_inc(Len(ary))
        n_intervals == Len(ary) - inc
        interval_width == [k \in 1..n_intervals |-> ary[k + inc] - ary[k]]
        min_idx == CHOOSE k \in 1..n_intervals :
                       \A j \in 1..n_intervals :
                           \/ interval_width[k] < interval_width[j]
                           \/ interval_width[k] = interval_width[j] /\ k <= j
    IN  <<ary[min_idx], ary[min_idx + inc]>>

\* the row before the one asked for
index_getitem_one_based(index, i) ==
    LET n == Len(index.labels)
    IN  IF i \in 1..n THEN [raised |-> FALSE, value |-> index.labels[i]]
        ELSE IF i \in (1 - n)..0 THEN [raised |-> FALSE, value |-> index.labels[n + i]]
        ELSE [raised |-> TRUE]

\* self.data_index[i]: positions count from 0, a negative position counts
\* from the end, any other position raises IndexError
index_getitem(index, i) ==
    LET n == Len(index.labels)
    IN  IF i \in 0..(n - 1) THEN [raised |-> FALSE, value |-> index.labels[i + 1]]
        ELSE IF i \in (-n)..(-1) THEN [raised |-> FALSE, value |-> index.labels[n + i + 1]]
        ELSE [raised |-> TRUE]

\* change_point_date stays None when there is no index or the lookup raises
change_point_date_of(index, i) ==
    IF index = NULL THEN NULL
    ELSE IF index_getitem(index, i).raised THEN NULL
    ELSE index_getitem(index, i).value

get_change_point_posterior ==
    /\ constructed
    /\ IF trace = NULL
       THEN ret' = [op |-> "get_change_point_posterior", status |-> "error",
                    error |-> "No trace available"]
       ELSE LET tau_var == first_match(trace.vars, "tau")
            IN  IF tau_var = <<>>
                THEN ret' = [op |-> "get_change_point_posterior", status |-> "error",
                             error |-> "Variable 'tau' not found in trace"]
                ELSE LET tau_samples == flatten(trace.posterior[tau_var[1]],
                                                trace.chains, trace.draws)
                     IN  ret' = [op |-> "get_change_point_posterior", status |-> "ok",
                                 value |-> [tau_mean |-> np_mean(tau_samples),
                                            tau_median |-> int_median(tau_samples),
                                            tau_mode |-> pd_mode(tau_samples)[1],
                                            tau_lower_95 |-> az_hdi(tau_samples)[1],
                                            tau_upper_95 |-> az_hdi(tau_samples)[2],
                                            change_point_date |->
                                                change_point_date_of(data_index,
                                                    int_median(tau_samples)),
                                            tau_samples |-> tau_samples]]
    /\ UNCHANGED <<constructed, n_obs, data_index, model_name, model, trace, associator, backend>>

(***************************************************************************)
(* get_parameter_posteriors                                                *)
(***************************************************************************)
\* only the first name that does not resolve
missing_vars_first_only(available_vars) ==
    LET all == SelectSeq(<<"mu1", "mu2", "sigma">>,
                         LAMBDA name : first_match(available_vars, name) = <<>>)
    IN  IF all = <<>> THEN <<>> ELSE <<Head(all)>>

\* the missing_vars list: the names among mu1, mu2, sigma that do not resolve
missing_vars(available_vars) ==
    SelectSeq(<<"mu1", "mu2", "sigma">>,
              LAMBDA name : first_match(available_vars, name) = <<>>)

impact_reversed(mu1_samples, mu2_samples) ==
    [k \in DOMAIN mu1_samples |-> mu1_samples[k] - mu2_samples[k]]

\* mu2_samples - mu1_samples, element by element
impact_of(mu1_samples, mu2_samples) ==
    [k \in DOMAIN mu1_samples |-> mu2_samples[k] - mu1_samples[k]]

\* (np.mean(impact_samples) / np.mean(mu1_samples)) * 100; den = 0 stands
\* for the inf or nan of a float division by zero
impact_percent_of(impact_mean, mu1_mean) ==
    [num |-> 100 * impact_mean.num * mu1_mean.den,
     den |-> impact_mean.den * mu1_mean.num]

parameter_results(t) ==
    LET samples_of(name) == flatten(t.posterior[first_match(t.vars, name)[1]],
                                    t.chains, t.draws)
        mu1_samples == samples_of("mu1")
        mu2_samples == samples_of("mu2")
        sigma_samples == samples_of("sigma")
        impact_samples == impact_of(mu1_samples, mu2_samples)
    IN  [mu1_mean |-> np_mean(mu1_samples),
         mu1_samples |-> mu1_samples,
         mu2_mean |-> np_mean(mu2_samples),
         mu2_samples |-> mu2_samples,
         sigma_mean |-> np_mean(sigma_samples),
         sigma_samples |-> sigma_samples,
         impact_mean |-> np_mean(impact_samples),
         impact_percent |-> impact_percent_of(np_mean(impact_samples),
                                              np_mean(mu1_samples)),
         impact_samples |-> impact_samples]

\* the summary that releases the draws once it has read them
get_parameter_posteriors_consuming ==
    /\ constructed
    /\ ret' = IF trace = NULL
              THEN [op |-> "get_parameter_posteriors", status |-> "error",
                    error |-> "No trace available"]
              ELSE IF missing_vars(trace.vars) # <<>>
              THEN [op |-> "get_parameter_posteriors", status |-> "error",
                    error |-> "Variables not found in trace",
                    missing |-> missing_vars(trace.vars)]
              ELSE [op |-> "get_parameter_posteriors", status |-> "ok",
                    value |-> parameter_results(trace)]
    /\ trace' = NULL
    /\ UNCHANGED <<constructed, n_obs, data_index, model_name, model, associator, backend>>

get_parameter_posteriors ==
    /\ constructed
    /\ IF trace = NULL
       THEN ret' = [op |-> "get_parameter_posteriors", status |-> "error",
                    error |-> "No trace available"]
       ELSE IF missing_vars(trace.vars) # <<>>
            THEN ret' = [op |-> "get_parameter_posteriors", status |-> "error",
                         error |-> "Variables not found in trace",
                         missing |-> missing_vars(trace.vars)]
            ELSE ret' = [op |-> "get_parameter_posteriors", status |-> "ok",
                         value |-> parameter_results(trace)]
    /\ UNCHANGED <<constructed, n_obs, data_index, model_name, model, trace, associator, backend>>

(***************************************************************************)
(* EventAssociator (src/src/models/event_association.py).  A catalogue row *)
(* is [Event_Date, Event_Description]; a date is the number of its day.    *)
(* An optional number or string is NULL or Some(value).  exp and the       *)
(* percentages are fixed-point: log returns in halves, exp in thousandths, *)
(* impact_percent in thousandths of a percent.                             *)
(***************************************************************************)
Some(v) == [some |-> v]

\* the BayesianChangePointModel instance, which the associator never touches
instance == <<constructed, n_obs, data_index, model_name, model, trace>>

\* DataFrame.sort_values(column).reset_index(drop=True) with the default
\* kind, which is not a stable sort: ascending by the column, rows of equal
\* value in file order ("stable") or in the opposite order ("reversed"),
\* as the platform's argsort leaves them
sort_values(rows, column, ties) ==
    LET n == Len(rows)
        before(i) == Cardinality({j \in 1..n :
                         \/ rows[j][column] < rows[i][column]
                         \/ /\ rows[j][column] = rows[i][column]
                            /\ IF ties = "stable" THEN j < i ELSE j > i})
    IN  [k \in 1..n |-> rows[CHOOSE i \in 1..n : before(i) = k - 1]]

\* a DataFrame: its columns and its rows in index order
DataFrame(columns, rows) == [columns |-> columns, rows |-> rows]

\* _load_events on an existing file: parse the dates, sort by Event_Date
load_events(rows, ties) ==
    DataFrame(<<"Event_Date", "Event_Description">>,
              sort_values(rows, "Event_Date", ties))

\* the constructor that goes on with an empty catalogue when the file is missing
EventAssociator_init_lenient(path_exists, rows) ==
    /\ events = NULL
    /\ events' = IF path_exists THEN load_events(rows, argsort_ties)
                 ELSE load_events(<<>>, argsort_ties)
    /\ ret' = [op |-> "EventAssociator", status |-> "ok",
               path_exists |-> path_exists, rows |-> rows]
    /\ UNCHANGED <<instance, argsort_ties, first_nearby, backend>>

EventAssociator_init(path_exists, rows) ==
    /\ events = NULL
    /\ IF ~path_exists
       THEN /\ ret' = [op |-> "EventAssociator", status |-> "error",
                       error |-> "Events file not found",
                       path_exists |-> path_exists, rows |-> rows]
            /\ UNCHANGED events
       ELSE /\ events' = load_events(rows, argsort_ties)
            /\ ret' = [op |-> "EventAssociator", status |-> "ok",
                       path_exists |-> path_exists, rows |-> rows]
    /\ UNCHANGED <<instance, argsort_ties, first_nearby, backend>>

in_window_open_end(event_date, start_date, end_date) ==
    event_date >= start_date /\ event_date < end_date

\* (Event_Date >= start_date) & (Event_Date <= end_date)
in_window(event_date, start_date, end_date) ==
    event_date >= start_date /\ event_date <= end_date

abs(x) == IF x < 0 THEN -x ELSE x

\* the copied row with its Days_Difference and Days_Abs columns
with_days(event, change_point_date) ==
    [Event_Date |-> event.Event_Date,
     Event_Description |-> event.Event_Description,
     Days_Difference |-> event.Event_Date - change_point_date,
     Days_Abs |-> abs(event.Event_Date - change_point_date)]

\* the DataFrame that find_nearby_events returns
nearby_events_of(catalogue, change_point_date, window_days, ties) ==
    LET start_date == change_point_date - window_days
        end_date == change_point_date + window_days
        nearby == SelectSeq(catalogue,
                            LAMBDA e : in_window(e.Event_Date, start_date, end_date))
    IN  sort_values([k \in 1..Len(nearby) |-> with_days(nearby[k], change_point_date)],
                    "Days_Abs", ties)

\* the history of the first search, kept for comparing later ones with it,
\* and the number of later searches with the same arguments (up to MaxRepeats)
remember(change_point_date, window_days, nearby) ==
    IF first_nearby = NULL
    THEN [change_point_date |-> change_point_date, window_days |-> window_days,
          nearby |-> nearby, repeats |-> 0]
    ELSE IF /\ first_nearby.change_point_date = change_point_date
            /\ first_nearby.window_days = window_days
            /\ first_nearby.repeats < MaxRepeats
    THEN [first_nearby EXCEPT !.repeats = @ + 1]
    ELSE first_nearby

\* the search that sorts the catalogue itself by proximity to the date
find_nearby_events_in_place(change_point_date, window_days) ==
    /\ events # NULL
    /\ LET nearby == nearby_events_of(events.rows, change_point_date, window_days,
                                      argsort_ties)
           by_proximity == sort_values(
               [k \in 1..Len(events.rows) |->
                   with_days(events.rows[k], change_point_date)],
               "Days_Abs", argsort_ties)
       IN  /\ ret' = [op |-> "find_nearby_events", status |-> "ok",
                       change_point_date |-> change_point_date,
                       window_days |-> window_days,
                       value |-> nearby]
           /\ first_nearby' = remember(change_point_date, window_days, nearby)
           /\ events' = DataFrame(<<"Event_Date", "Event_Description",
                                    "Days_Difference", "Days_Abs">>, by_proximity)
    /\ UNCHANGED <<instance, argsort_ties, backend>>

find_nearby_events(change_point_date, window_days) ==
    /\ events # NULL
    /\ LET nearby == nearby_events_of(events.rows, change_point_date, window_days,
                                      argsort_ties)
       IN  /\ ret' = [op |-> "find_nearby_events", status |-> "ok",
                       change_point_date |-> change_point_date,
                       window_days |-> window_days,
                       value |-> nearby]
           /\ first_nearby' = remember(change_point_date, window_days, nearby)
    /\ UNCHANGED <<instance, events, argsort_ties, backend>>

\* np.exp of a log return given in halves, in thousandths
np_exp(x) ==
    CASE x = -4 -> 135  [] x = -3 -> 223  [] x = -2 -> 368  [] x = -1 -> 607
      [] x = 0 -> 1000
      [] x = 1 -> 1649  [] x = 2 -> 2718  [] x = 3 -> 4482  [] x = 4 -> 7389

impact_log_reversed(mu1, mu2) == mu1 - mu2

\* impact_log = mu2 - mu1
impact_log_of(mu1, mu2) == mu2 - mu1

\* (np.exp(impact_log) - 1) * 100, in thousandths of a percent
exp_impact_percent(impact_log) == (np_exp(impact_log) - 1000) * 100

\* impact_usd: set only when both prices are given
impact_usd_of(price_before, price_after) ==
    IF price_before # NULL /\ price_after # NULL
    THEN Some(price_after.some - price_before.some)
    ELSE NULL

closest_event_last(nearby) == IF Len(nearby) > 0 THEN nearby[Len(nearby)] ELSE NULL

\* nearby_events.iloc[0].to_dict() if len(nearby_events) > 0, else None
closest_event_of(nearby) == IF Len(nearby) > 0 THEN nearby[1] ELSE NULL

association_of(change_point_date, mu1, mu2, price_before, price_after, window_days, nearby) ==
    [change_point_date |-> change_point_date,
     mu1 |-> mu1,
     mu2 |-> mu2,
     impact_log |-> impact_log_of(mu1, mu2),
     impact_percent |-> exp_impact_percent(impact_log_of(mu1, mu2)),
     impact_usd |-> impact_usd_of(price_before, price_after),
     price_before |-> price_before,
     price_after |-> price_after,
     nearby_events |-> nearby,
     closest_event |-> closest_event_of(nearby),
     window_days |-> window_days]

associate_change_point(change_point_date, mu1, mu2, price_before, price_after, window_days) ==
    /\ events # NULL
    /\ LET nearby == nearby_events_of(events.rows, change_point_date, window_days,
                                      argsort_ties)
       IN  /\ ret' = [op |-> "associate_change_point", status |-> "ok",
                       change_point_date |-> change_point_date,
                       window_days |-> window_days,
                       value |-> association_of(change_point_date, mu1, mu2,
                                                price_before, price_after,
                                                window_days, nearby)]
           /\ first_nearby' = remember(change_point_date, window_days, nearby)
    /\ UNCHANGED <<instance, events, argsort_ties, backend>>

\* "if event_name:" is false for None and for the empty string
truthy(event_name) == event_name # NULL /\ event_name.some # ""

\* f"{x:.2f}" of x given in thousandths: the sign and the hundredths,
\* rounded to the nearest, a half to the even neighbour
format_2f(x) ==
    LET q == abs(x) \div 10
        r == abs(x) % 10
        hundredths == IF r < 5 THEN q
                      ELSE IF r > 5 THEN q + 1
                      ELSE IF q % 2 = 0 THEN q ELSE q + 1
    IN  [minus_sign |-> x < 0, hundredths |-> hundredths]

direction_of_nonnegative(impact_percent) ==
    IF impact_percent >= 0 THEN "increase" ELSE "decrease"

\* direction = "increase" if impact_percent > 0 else "decrease"
direction_of(impact_percent) == IF impact_percent > 0 THEN "increase" ELSE "decrease"

\* f"{abs(impact_percent):.2f}%"
magnitude_of(impact_percent) == format_2f(abs(impact_percent))

\* the sentence, clause by clause: "Following the <event_name> around <date>"
\* or "On <date>", then the price clause when both prices are given, then
\* ", a <direction> of <magnitude>%."
statement_of(association, event_name) ==
    [event_clause |-> IF truthy(event_name) THEN event_name ELSE NULL,
     date_str |-> association.change_point_date,
     price_clause |-> IF association.price_before # NULL
                         /\ association.price_after # NULL
                      THEN Some(<<format_2f(association.price_before.some * 1000),
                                 format_2f(association.price_after.some * 1000)>>)
                      ELSE NULL,
     direction |-> direction_of(association.impact_percent),
     magnitude |-> magnitude_of(association.impact_percent)]

format_impact_statement(association, event_name) ==
    /\ events # NULL
    /\ ret' = [op |-> "format_impact_statement", status |-> "ok",
               association |-> association,
               event_name |-> event_name,
               value |-> statement_of(association, event_name)]
    /\ UNCHANGED <<instance, associator, backend>>

(***************************************************************************)
(* The life cycle of one instance                                          *)
(***************************************************************************)
Init ==
    /\ NoBackend
    /\ constructed = FALSE
    /\ n_obs = 0
    /\ data_index = NULL
    /\ model_name = ""
    /\ model = NULL
    /\ trace = NULL
    /\ events = NULL
    /\ argsort_ties = "stable"
    /\ first_nearby = NULL
    /\ ret = [op |-> "none", status |-> "ok"]

Next ==
    \/ \E len \in DataLengths, mname \in ModelNames :
          \E index \in DataIndexes(len) : Construct(len, mname, index)
    \/ build_model
    \/ \E draws \in 1..MaxDraws, chains \in 1..MaxChains :
          chains * draws <= MaxSamples /\ sample(draws, chains)
    \/ check_convergence
    \/ get_change_point_posterior
    \/ get_parameter_posteriors

Spec == Init /\ [][Next]_vars

(***************************************************************************)
(* Diagnostics over traces with any variable names.  The state is the one  *)
(* after __init__, build_model and a sample call whose backend returned a  *)
(* trace with the given variables: plain and prefixed names of the four    *)
(* parameters and a foreign one, at least one of them, in either order,    *)
(* each with an R-hat of 1.00, 1.01 or NaN, with or without an r_hat       *)
(* column in the summary.                                                  *)
(***************************************************************************)
CanonVars ==
    <<<<"tau">>, <<"mu1">>, <<"mu2">>, <<"sigma">>,
      <<"cp", "::", "tau">>, <<"cp", "::", "mu1">>, <<"cp", "::", "mu2">>,
      <<"cp", "::", "sigma">>, <<"other">>>>

RHatValues == {100, 101, NaN}

\* the trace with variables vs, R-hat values rh and an r_hat column or none
DiagTrace(vs, rh, has_r_hat) ==
    [chains |-> 2, draws |-> 1, vars |-> vs,
     posterior |-> [v \in Range(vs) |-> const_array(2, 1, 1)],
     r_hat |-> rh, has_r_hat |-> has_r_hat]

InitDiag ==
    /\ NoBackend
    /\ constructed = TRUE
    /\ n_obs = MinObs
    /\ data_index = DatetimeIndex(MinObs)
    /\ events = NULL
    /\ argsort_ties = "stable"
    /\ first_nearby = NULL
    /\ model_name = "cp"
    /\ model = pm_Model(MinObs, "cp")
    /\ \E idx \in SUBSET (1..Len(CanonVars)), reversed \in BOOLEAN :
          /\ Cardinality(idx) \in 1..MaxVars
          /\ reversed => Cardinality(idx) >= 2
          /\ LET vs == IF reversed THEN Reverse(Pick(CanonVars, idx))
                       ELSE Pick(CanonVars, idx)
             IN  \/ \E rh \in [Range(vs) -> RHatValues] :
                       trace = DiagTrace(vs, rh, TRUE)
                 \/ trace = DiagTrace(vs, [v \in Range(vs) |-> 100], FALSE)
    /\ ret = [op |-> "sample", status |-> "ok", pm_calls |-> 1, value |-> trace]

NextDiag ==
    \/ check_convergence
    \/ get_change_point_posterior
    \/ get_parameter_posteriors

SpecDiag == InitDiag /\ [][NextDiag]_vars

(***************************************************************************)
(* Summaries over the draws.  The state is the one after __init__,         *)
(* build_model and a successful sample call of the model named "cp"; the   *)
(* trace varies either the tau draws over the whole prior support or the   *)
(* mu1 and mu2 draws over MuValues.                                        *)
(***************************************************************************)
MuValues == {-1, 0, 2}

SummTrace(chains, draws, taus, mu1s, mu2s) ==
    LET name(k) == name_for("cp", RequestedNames[k])
    IN  [chains |-> chains,
         draws |-> draws,
         vars |-> [k \in 1..4 |-> name(k)],
         posterior |-> [v \in {name(k) : k \in 1..4} |->
                           IF v = name(1) THEN taus
                           ELSE IF v = name(2) THEN mu1s
                           ELSE IF v = name(3) THEN mu2s
                           ELSE const_array(chains, draws, 1)],
         r_hat |-> [v \in {name(k) : k \in 1..4} |-> 100],
         has_r_hat |-> TRUE]

InitSumm ==
    /\ NoBackend
    /\ constructed = TRUE
    /\ n_obs \in MinObs..MaxObs
    /\ data_index = DatetimeIndex(n_obs)
    /\ events = NULL
    /\ argsort_ties = "stable"
    /\ first_nearby = NULL
    /\ model_name = "cp"
    /\ model = pm_Model(n_obs, "cp")
    /\ \E chains \in 1..MaxChains, draws \in 1..MaxDraws :
          /\ chains * draws <= MaxSamples
          /\ \/ \E taus \in [1..chains -> [1..draws -> model.lower..model.upper]] :
                   trace = SummTrace(chains, draws, taus,
                                     const_array(chains, draws, 1),
                                     const_array(chains, draws, 1))
             \/ /\ n_obs = MinObs
                /\ \E mu1s, mu2s \in [1..chains -> [1..draws -> MuValues]] :
                      trace = SummTrace(chains, draws,
                                        const_array(chains, draws, model.initval),
                                        mu1s, mu2s)
    /\ ret = [op |-> "sample", status |-> "ok", pm_calls |-> 1, value |-> trace]

NextSumm ==
    \/ get_change_point_posterior
    \/ get_parameter_posteriors

SpecSumm == InitSumm /\ [][NextSumm]_vars

(***************************************************************************)
(* The change point summary over two more families of stored draws, after  *)
(* __init__ and build_model of the model named "cp".  The first is a       *)
(* sample call of one chain of HdiDraws - 1 or HdiDraws draws: enough for  *)
(* az.hdi to choose between two windows; the draws take the two ends and   *)
(* the initial value of the support, ascending or descending.  The second  *)
(* is a trace assigned to self.trace from a run over a longer series, so   *)
(* that its tau draws may lie at or beyond the end of the index.           *)
(***************************************************************************)
\* a draws of the first value, b of the second, the rest of the third
three_level(draws, a, b, values) ==
    [k \in 1..draws |-> IF k <= a THEN values[1]
                        ELSE IF k <= a + b THEN values[2] ELSE values[3]]

TauBeyond(n) == {1, n - 1, n, n + 1}

InitPost ==
    /\ NoBackend
    /\ constructed = TRUE
    /\ n_obs \in MinObs..MaxObs
    /\ events = NULL
    /\ argsort_ties = "stable"
    /\ first_nearby = NULL
    /\ model_name = "cp"
    /\ model = pm_Model(n_obs, "cp")
    /\ \/ /\ n_obs = MinObs
          /\ data_index = DatetimeIndex(n_obs)
          /\ \E draws \in (HdiDraws - 1)..HdiDraws, descending \in BOOLEAN :
                \E a \in 0..draws :
                   \E b \in 0..(draws - a) :
                      LET values == <<model.lower, model.initval, model.upper>>
                          taus == three_level(draws, a, b,
                                              IF descending THEN Reverse(values)
                                              ELSE values)
                      IN  trace = SummTrace(1, draws, <<taus>>,
                                            const_array(1, draws, 1),
                                            const_array(1, draws, 1))
       \/ /\ data_index \in DataIndexes(n_obs)
          /\ \E chains \in 1..MaxChains, draws \in 1..MaxDraws :
                /\ chains * draws <= MaxSamples
                /\ \E taus \in [1..chains -> [1..draws -> TauBeyond(n_obs)]] :
                      trace = SummTrace(chains, draws, taus,
                                        const_array(chains, draws, 1),
                                        const_array(chains, draws, 1))
    /\ ret = [op |-> "sample", status |-> "ok", pm_calls |-> 1, value |-> trace]

NextPost == get_change_point_posterior

SpecPost == InitPost /\ [][NextPost]_vars

(***************************************************************************)
(* The EventAssociator over every catalogue file of up to MaxEvents rows   *)
(* with dates in EventDays, on a platform whose default sort keeps or      *)
(* reverses the file order of rows with equal keys.  Searches are made     *)
(* around day 100 with two windows: the window of 5 has the days 95 and    *)
(* 105 as its ends and leaves 94 and 106 out.                              *)
(***************************************************************************)
EventDays == {94, 95, 100, 105, 106}
ChangePointDates == {100}
Windows == {0, 5}
TieOrders == {"stable", "reversed"}

EventName(k) == <<"e1", "e2", "e3", "e4", "e5", "e6">>[k]

\* the rows of a catalogue file with the given dates, in file order
CatalogueRows(dates) ==
    [k \in 1..Len(dates) |-> [Event_Date |-> dates[k], Event_Description |-> EventName(k)]]

\* the event names a caller passes: none, the empty string, a name
EventNameArgs == {NULL, Some(""), Some("e1")}

InitEvents ==
    /\ NoBackend
    /\ constructed = FALSE
    /\ n_obs = 0
    /\ data_index = NULL
    /\ model_name = ""
    /\ model = NULL
    /\ trace = NULL
    /\ events = NULL
    /\ argsort_ties \in TieOrders
    /\ first_nearby = NULL
    /\ ret = [op |-> "none", status |-> "ok"]

NextEvents ==
    \/ \E path_exists \in BOOLEAN, n \in 0..MaxEvents :
          \E dates \in [1..n -> EventDays] :
             EventAssociator_init(path_exists, CatalogueRows(dates))
    \/ \E date \in ChangePointDates, window_days \in Windows :
          find_nearby_events(date, window_days)
    \/ \E date \in ChangePointDates, window_days \in Windows :
          associate_change_point(date, 0, 2, NULL, NULL, window_days)
    \/ /\ ret.op = "associate_change_point"
       /\ \E event_name \in EventNameArgs : format_impact_statement(ret.value, event_name)

SpecEvents == InitEvents /\ [][NextEvents]_vars

(***************************************************************************)
(* Impact quantification and the statement, for an associator loaded from  *)
(* a catalogue of two events: log returns on the half grid, prices given   *)
(* or not, and, for the statement, also associations whose impact_percent  *)
(* is off the grid (-12.34, -0.004, 0, 0.004, 12.346).                     *)
(***************************************************************************)
MuLogs == {-2, 0, 1, 2}
Prices == {NULL, Some(50), Some(60)}
PercentInputs == {-12340, -4, 0, 4, 12346}

\* an association as associate_change_point returned it for an impact_percent
\* of the given value
GivenAssociations ==
    {[association_of(100, 0, 0, NULL, NULL, 5, <<>>) EXCEPT !.impact_percent = x] :
        x \in PercentInputs}

InitImpact ==
    /\ NoBackend
    /\ constructed = FALSE
    /\ n_obs = 0
    /\ data_index = NULL
    /\ model_name = ""
    /\ model = NULL
    /\ trace = NULL
    /\ argsort_ties = "stable"
    /\ events = load_events(CatalogueRows(<<105, 95>>), argsort_ties)
    /\ first_nearby = NULL
    /\ ret = [op |-> "EventAssociator", status |-> "ok", path_exists |-> TRUE,
              rows |-> CatalogueRows(<<105, 95>>)]

NextImpact ==
    \/ \E mu1 \in MuLogs, mu2 \in MuLogs, price_before \in Prices,
          price_after \in Prices, window_days \in Windows :
          associate_change_point(100, mu1, mu2, price_before, price_after, window_days)
    \/ \E association \in GivenAssociations \cup
                           (IF ret.op = "associate_change_point" THEN {ret.value} ELSE {}),
          event_name \in {NULL, Some("e1")} :
          format_impact_statement(association, event_name)

SpecImpact == InitImpact /\ [][NextImpact]_vars

(***************************************************************************)
(* BrentOilDataLoader (src/src/data_processing/load_data.py)               *)
(***************************************************************************)
MaxRows == 3        \* most rows of a price file tried in the loader's life cycle

\* a cell of the Date column as written in the file, and the day it names
DateCell(format, day) == [format |-> format, day |-> day]

\* _parse_dates on one cell: "DD-MMM-YY", "MMM DD, YYYY" and what pandas
\* parses by itself give the day, anything else gives NaT (shown as NaN)
parse_date(cell) ==
    IF cell.format \in {"%d-%b-%y", "%b %d, %Y", "auto"} THEN cell.day ELSE NaN

\* pd.to_numeric(errors='coerce') on one cell: text that is no number is NaN
to_numeric(cell) == IF cell.numeric THEN cell.value ELSE NaN

PriceCell(numeric, value) == [numeric |-> numeric, value |-> value]

\* the rows that keep their place under dropna()
dropna(rows) == SelectSeq(rows, LAMBDA r : r.Date # NaN /\ r.Price # NaN)

\* a file on disk: NULL when absent, else its header and its rows; a file
\* of zero bytes has no header
File(columns, rows) == [columns |-> columns, rows |-> rows]
ZeroBytes == File(<<>>, <<>>)

\* the outcomes of load() on a file: pd.read_csv, the column check, the
\* parsing, dropna, the sort by date.  When no row is left, _validate_data
\* evaluates (max - min).days on an empty column, which depends on the
\* column's dtype: the call may raise or may store the empty frame.
load_outcomes(file, ties) ==
    IF file = NULL
    THEN {[raised |-> TRUE, error |-> "Data file not found"]}
    ELSE IF file.columns = <<>>
    THEN {[raised |-> TRUE, error |-> "Data file is empty"]}
    ELSE IF ~({"Date", "Price"} \subseteq Range(file.columns))
    THEN {[raised |-> TRUE, error |-> "Missing required columns"]}
    ELSE LET parsed == [k \in DOMAIN file.rows |->
                           [Date |-> parse_date(file.rows[k].Date),
                            Price |-> to_numeric(file.rows[k].Price)]]
             df == DataFrame(<<"Date", "Price">>,
                             sort_values(dropna(parsed), "Date", ties))
         IN  {[raised |-> FALSE, df |-> df]} \cup
             (IF df.rows = <<>>
              THEN {[raised |-> TRUE, error |-> "Unexpected error loading data"]}
              ELSE {})

\* self.data after a load that raised: the assignment was not reached
data_after_failed_load(old) == old

\* load(): every exception leaves as DataLoadError; self.data is assigned
\* only on success, and the frame returned is self.data itself
load ==
    /\ fs # NULL
    /\ \E outcome \in load_outcomes(fs.prices, argsort_ties) :
          IF outcome.raised
          THEN /\ loader' = data_after_failed_load(loader)
               /\ ret' = [op |-> "load", status |-> "error",
                          error_type |-> "DataLoadError", error |-> outcome.error,
                          was_loaded |-> loader # NULL]
          ELSE /\ loader' = outcome.df
               /\ ret' = [op |-> "load", status |-> "ok", value |-> outcome.df,
                          shares_data |-> TRUE, mutated |-> FALSE]
    /\ UNCHANGED <<instance, associator, fs, analyzer, data_service, rng, sampled>>

\* what get_data hands out: the frame itself
returned_frame_is_data(data) == [value |-> data, shares_data |-> TRUE]

\* what get_data hands out: self.data.copy(), a frame of its own
returned_frame(data) == [value |-> data, shares_data |-> FALSE]

get_data ==
    /\ fs # NULL
    /\ IF loader = NULL
       THEN ret' = [op |-> "get_data", status |-> "error",
                    error_type |-> "DataLoadError",
                    error |-> "Data has not been loaded. Call load() first."]
       ELSE ret' = [op |-> "get_data", status |-> "ok",
                    value |-> returned_frame(loader).value,
                    shares_data |-> returned_frame(loader).shares_data,
                    mutated |-> FALSE]
    /\ UNCHANGED <<instance, associator, backend>>

\* prices / prices.shift(1) without the first row, which dropna() removes:
\* the labels are those of the price rows 1..n-1, the values are kept as
\* the ratio of which the method takes the logarithm or subtracts one
returns_of(data, method) ==
    LET n == Len(data.rows)
    IN  [method |-> method,
         index |-> [kind |-> "RangeIndex", labels |-> [k \in 1..(n - 1) |-> k]],
         values |-> [k \in 1..(n - 1) |->
                        [num |-> data.rows[k + 1].Price, den |-> data.rows[k].Price]]]

compute_returns(method) ==
    /\ fs # NULL
    /\ IF loader = NULL
       THEN ret' = [op |-> "compute_returns", status |-> "error",
                    error_type |-> "DataLoadError",
                    error |-> "Data has not been loaded. Call load() first.",
                    method |-> method]
       ELSE IF method \notin {"log", "simple"}
       THEN ret' = [op |-> "compute_returns", status |-> "error",
                    error_type |-> "ValueError", error |-> "Unknown method",
                    method |-> method]
       ELSE ret' = [op |-> "compute_returns", status |-> "ok", method |-> method,
                    value |-> returns_of(loader, method)]
    /\ UNCHANGED <<instance, associator, backend>>

\* the caller writes into the frame it was handed: the price of its first row
mutate_returned(price) ==
    /\ ret.op \in {"load", "get_data"} /\ ret.status = "ok"
    /\ Len(ret.value.rows) > 0
    /\ ret.value.rows[1].Price # price
    /\ ret' = [ret EXCEPT !.value.rows[1].Price = price, !.mutated = TRUE]
    /\ loader' = IF ret.shares_data THEN ret'.value ELSE loader
    /\ UNCHANGED <<instance, associator, fs, analyzer, data_service, rng, sampled>>

(***************************************************************************)
(* TimeSeriesAnalyzer (src/src/data_processing/preprocess.py)              *)
(***************************************************************************)
p_significant == 50     \* 0.05 in thousandths
p_floor == 1            \* 0.001 in thousandths

\* TimeSeriesAnalyzer(data): a copy of the frame, indexed and sorted by Date
TimeSeriesAnalyzer_init(data) ==
    /\ fs # NULL
    /\ IF ~({"Date", "Price"} \subseteq Range(data.columns))
       THEN /\ ret' = [op |-> "TimeSeriesAnalyzer", status |-> "error",
                       error_type |-> "PreprocessingError",
                       error |-> "Data must contain 'Date' and 'Price' columns"]
            /\ UNCHANGED analyzer
       ELSE /\ analyzer' = DataFrame(data.columns,
                                     sort_values(data.rows, "Date", argsort_ties))
            /\ ret' = [op |-> "TimeSeriesAnalyzer", status |-> "ok"]
    /\ UNCHANGED <<instance, associator, fs, loader, data_service, rng, sampled>>

\* the p-values, in thousandths, that adfuller and kpss are tried with
PValues == {0, 49, 50, 51}

\* what the statistics library delivers: it raises or returns a p-value
stattools_outcomes == {[raised |-> TRUE]} \cup {[raised |-> FALSE, p_value |-> p] : p \in PValues}

stationarity_result(method, p) ==
    IF method = "adf"
    THEN [test |-> "ADF", p_value |-> p, is_stationary |-> p < p_significant]
    ELSE LET q == IF p < p_floor THEN p_floor ELSE p
         IN  [test |-> "KPSS", p_value |-> q, is_stationary |-> q > p_significant]

\* the exception type that leaves test_stationarity when the body raised e:
\* except Exception as e: raise PreprocessingError(...) from e
raised_by_test_stationarity(e) == "PreprocessingError"

test_stationarity(method) ==
    /\ analyzer # NULL
    /\ IF method \in {"adf", "kpss"}
       THEN \E outcome \in stattools_outcomes :
               ret' = IF outcome.raised
                      THEN [op |-> "test_stationarity", status |-> "error",
                            method |-> method,
                            error_type |-> raised_by_test_stationarity("Exception"),
                            error |-> "Error in stationarity test"]
                      ELSE [op |-> "test_stationarity", status |-> "ok",
                            method |-> method,
                            value |-> stationarity_result(method, outcome.p_value)]
       ELSE ret' = [op |-> "test_stationarity", status |-> "error",
                    method |-> method,
                    error_type |-> raised_by_test_stationarity("ValueError"),
                    error |-> "Error in stationarity test: Unknown method"]
    /\ UNCHANGED <<instance, associator, backend>>

(***************************************************************************)
(* The life cycle of a loader and of the analyzer of its data              *)
(***************************************************************************)
\* the rows of price files tried: the three date formats, two rows of one
\* day, a date and a price that cannot be parsed
PriceRows ==
    {[Date |-> DateCell("%d-%b-%y", 100), Price |-> PriceCell(TRUE, 2)],
     [Date |-> DateCell("%b %d, %Y", 101), Price |-> PriceCell(TRUE, 4)],
     [Date |-> DateCell("auto", 101), Price |-> PriceCell(TRUE, 2)],
     [Date |-> DateCell("junk", 0), Price |-> PriceCell(TRUE, 4)],
     [Date |-> DateCell("%d-%b-%y", 102), Price |-> PriceCell(FALSE, 0)]}

\* the price files tried: absent, of zero bytes, with a wrong header, and
\* every file of up to MaxRows rows
PriceFiles ==
    {NULL, ZeroBytes, File(<<"Date", "Close">>, <<>>)} \cup
    UNION {{File(<<"Date", "Price">>, rows) :
               rows \in [1..n -> PriceRows]} : n \in 0..MaxRows}

Files(prices) == [prices |-> prices, key_events |-> NULL, association |-> NULL, nearby |-> NULL]

ReturnMethods == {"log", "simple", "invalid"}
StationarityMethods == {"adf", "kpss", "invalid"}

\* the price file is replaced or removed between two calls
replace_prices(file) ==
    /\ fs # NULL
    /\ fs.prices # file
    /\ fs' = [fs EXCEPT !.prices = file]
    /\ ret' = [op |-> "none", status |-> "ok"]
    /\ UNCHANGED <<instance, associator, loader, analyzer, data_service, rng, sampled>>

InitLoader ==
    /\ constructed = FALSE
    /\ n_obs = 0
    /\ data_index = NULL
    /\ model_name = ""
    /\ model = NULL
    /\ trace = NULL
    /\ events = NULL
    /\ argsort_ties \in TieOrders
    /\ first_nearby = NULL
    /\ \E file \in PriceFiles : fs = Files(file)
    /\ loader = NULL
    /\ analyzer = NULL
    /\ data_service = NULL
    /\ rng = NULL
    /\ sampled = {}
    /\ ret = [op |-> "none", status |-> "ok"]

NextLoader ==
    \/ load
    \/ get_data
    \/ \E method \in ReturnMethods : compute_returns(method)
    \/ \E price \in {2, 8} : mutate_returned(price)
    \/ \E file \in {NULL, File(<<"Date", "Price">>, <<>>)} : replace_prices(file)
    \/ /\ ret.op \in {"load", "get_data"} /\ ret.status = "ok"
       /\ \E data \in {ret.value, DataFrame(<<"Date">>, ret.value.rows)} :
             TimeSeriesAnalyzer_init(data)
    \/ \E method \in StationarityMethods : test_stationarity(method)

SpecLoader == InitLoader /\ [][NextLoader]_vars

(***************************************************************************)
(* DataService and the routes of the API (src/backend/api)                 *)
(***************************************************************************)
MaxRequests == 2    \* requests the server handles at the same time

\* cells of a CSV file as pandas reads them: the text of a date, a number,
\* other text, nothing (NaN)
DateText(day) == [date |-> day]
Number(n) == [number |-> n]
Text(s) == [text |-> s]
NaNCell == [nan |-> TRUE]

\* 'date' in key.lower()
DateKeys == {"change_point_date", "closest_event_date"}

\* the conversion of one cell of the first row: a date becomes its ISO
\* string, NaN becomes None, a number becomes a float, text stays
json_value(key, cell) ==
    IF key \in DateKeys /\ cell # NaNCell
    THEN (IF DOMAIN cell = {"date"} THEN [iso |-> cell.date] ELSE cell)
    ELSE IF cell = NaNCell THEN NULL
    ELSE IF DOMAIN cell = {"number"} THEN [float |-> cell.number]
    ELSE cell

json_row(row) == [key \in DOMAIN row |-> json_value(key, row[key])]

\* 'count' as the number of rows of the file
change_points_count_rows(cp_data) == Len(cp_data.rows)

\* 'count' of the answer built from a file with rows: one entry, count 1
change_points_count(cp_data) == 1

\* DataService.get_change_points: the answer, or the DataServiceError
change_points_result(file) ==
    IF file # NULL /\ file.columns = <<>>
    THEN [raised |-> TRUE, error |-> "Error loading change points"]
    ELSE IF file # NULL /\ Len(file.rows) > 0
    THEN [raised |-> FALSE,
          value |-> [change_points |-> <<json_row(file.rows[1])>>,
                     count |-> change_points_count(file),
                     message |-> NULL]]
    ELSE [raised |-> FALSE,
          value |-> [change_points |-> <<>>,
                     count |-> 0,
                     message |-> Some("Change point analysis not yet run")]]

\* a route's answer: the result with 200, or the error payload with 500
http_response(op, outcome) ==
    IF outcome.raised
    THEN [op |-> op, status |-> 500, payload |-> [error |-> outcome.error]]
    ELSE [op |-> op, status |-> 200, payload |-> outcome.value]

\* GET /change-points: the route and the service call it makes
get_change_points ==
    /\ data_service # NULL
    /\ ret' = http_response("get_change_points", change_points_result(fs.association))
    /\ UNCHANGED <<instance, associator, backend>>

\* a request thread at rest
Idle == [pc |-> "idle"]

\* a filter argument: absent, or the text of a date
parses(arg) == arg.format # "junk"

\* every date filter given can be parsed
filters_parse(args) ==
    /\ args.start_date # NULL => parses(args.start_date)
    /\ args.end_date # NULL => parses(args.end_date)

\* the rows a request's filters keep
filtered(rows, column, args) ==
    SelectSeq(rows, LAMBDA r :
        /\ args.start_date # NULL => r[column] >= parse_date(args.start_date)
        /\ args.end_date # NULL => r[column] <= parse_date(args.end_date)
        /\ args.event_type # NULL => r.Event_Type = args.event_type.some)

\* the work frame of a request: self._cache.copy()
work_frame(cache) == [rows |-> cache.rows, shares_data |-> FALSE]

\* a request arrives and a thread of the server takes it
receive(t, endpoint, args) ==
    /\ data_service # NULL
    /\ data_service.requests[t] = Idle
    /\ data_service' = [data_service EXCEPT !.requests[t] =
                           [pc |-> "check", endpoint |-> endpoint, args |-> args]]
    /\ UNCHANGED <<instance, associator, fs, loader, analyzer, rng, sampled, ret>>

cache_of(endpoint) == IF endpoint = "prices" THEN "price_data_cache" ELSE "events_cache"

\* if self._cache is None: the thread reads the cache
check_cache(t) ==
    /\ data_service # NULL
    /\ data_service.requests[t].pc = "check"
    /\ LET r == data_service.requests[t]
       IN  data_service' = [data_service EXCEPT !.requests[t].pc =
                               IF data_service[cache_of(r.endpoint)] = NULL
                               THEN "load" ELSE "respond"]
    /\ UNCHANGED <<instance, associator, fs, loader, analyzer, rng, sampled, ret>>

\* reading the source of an endpoint: BrentOilDataLoader().load(), or
\* pd.read_csv of the catalogue with the dates parsed
source_outcomes(endpoint) ==
    IF endpoint = "prices"
    THEN {IF o.raised THEN [raised |-> TRUE, error |-> "Error loading historical prices"]
          ELSE o : o \in load_outcomes(fs.prices, argsort_ties)}
    ELSE IF fs.key_events = NULL \/ fs.key_events.columns = <<>>
    THEN {[raised |-> TRUE, error |-> "Error loading events"]}
    ELSE {[raised |-> FALSE, df |-> DataFrame(fs.key_events.columns, fs.key_events.rows)]}

loads_of(endpoint) == IF endpoint = "prices" THEN "price_loads" ELSE "events_loads"

\* the thread found no cache: it loads the source and assigns the cache,
\* or answers 500 when the load raises
load_source(t) ==
    /\ data_service # NULL
    /\ data_service.requests[t].pc = "load"
    /\ LET r == data_service.requests[t]
       IN  \E outcome \in source_outcomes(r.endpoint) :
              IF outcome.raised
              THEN /\ data_service' = [data_service EXCEPT !.requests[t] = Idle]
                   /\ ret' = http_response(r.endpoint, outcome)
              ELSE /\ data_service' = [data_service EXCEPT
                          !.requests[t].pc = "respond",
                          ![cache_of(r.endpoint)] = outcome.df,
                          ![loads_of(r.endpoint)] = @ + 1]
                   /\ UNCHANGED ret
    /\ UNCHANGED <<instance, associator, fs, loader, analyzer, rng, sampled>>

\* the thread copies the cache, applies the filters and answers
respond(t) ==
    /\ data_service # NULL
    /\ data_service.requests[t].pc = "respond"
    /\ LET r == data_service.requests[t]
           cache == data_service[cache_of(r.endpoint)]
           column == IF r.endpoint = "prices" THEN "Date" ELSE "Event_Date"
           work == work_frame(cache)
       IN  IF ~filters_parse(r.args)
           THEN /\ ret' = http_response(r.endpoint,
                              [raised |-> TRUE, error |-> "Error loading data"])
                /\ data_service' = [data_service EXCEPT !.requests[t] = Idle]
           ELSE LET kept == filtered(work.rows, column, r.args)
                IN  /\ ret' = http_response(r.endpoint,
                                 [raised |-> FALSE,
                                  value |-> [data |-> kept, count |-> Len(kept)]])
                    /\ data_service' = [data_service EXCEPT
                          !.requests[t] = Idle,
                          ![cache_of(r.endpoint)] =
                              IF work.shares_data
                              THEN [cache EXCEPT !.rows = kept] ELSE cache]
    /\ UNCHANGED <<instance, associator, fs, loader, analyzer, rng, sampled>>

(***************************************************************************)
(* The API server and the requests it handles                              *)
(***************************************************************************)
ServicePrices ==
    File(<<"Date", "Price">>,
         <<[Date |-> DateCell("%d-%b-%y", 100), Price |-> PriceCell(TRUE, 2)],
           [Date |-> DateCell("%d-%b-%y", 101), Price |-> PriceCell(TRUE, 4)]>>)

ServiceEvents ==
    File(<<"Event_Date", "Event_Description", "Event_Type">>,
         <<[Event_Date |-> 100, Event_Description |-> "e1", Event_Type |-> "OPEC"],
           [Event_Date |-> 101, Event_Description |-> "e2", Event_Type |-> "War"]>>)

AssociationColumns == <<"change_point_date", "change_point_obs", "closest_event",
                        "closest_event_date">>

AssociationRows ==
    {[change_point_date |-> DateText(100), change_point_obs |-> Number(5),
      closest_event |-> Text("e1"), closest_event_date |-> DateText(101)],
     [change_point_date |-> DateText(101), change_point_obs |-> Number(6),
      closest_event |-> NaNCell, closest_event_date |-> NaNCell]}

\* the association files tried: absent, of zero bytes, a header alone, and
\* up to two rows
AssociationFiles ==
    {NULL, ZeroBytes} \cup
    {File(AssociationColumns, rows) :
        rows \in {<<>>} \cup {<<a>> : a \in AssociationRows}
                 \cup {<<a, b>> : a, b \in AssociationRows}}

QueryArgs(start_date, end_date, event_type) ==
    [start_date |-> start_date, end_date |-> end_date, event_type |-> event_type]

\* the requests tried: prices from a start date, prices to an end date that
\* cannot be parsed, all events, the events of one type up to an end date
Requests ==
    {<<"prices", QueryArgs(DateCell("auto", 101), NULL, NULL)>>,
     <<"prices", QueryArgs(NULL, DateCell("junk", 0), NULL)>>,
     <<"events", QueryArgs(NULL, NULL, NULL)>>,
     <<"events", QueryArgs(NULL, DateCell("auto", 100), Some("OPEC"))>>}

NewService ==
    [price_data_cache |-> NULL, events_cache |-> NULL,
     price_loads |-> 0, events_loads |-> 0,
     requests |-> [t \in 1..MaxRequests |-> Idle]]

InitService ==
    /\ constructed = FALSE
    /\ n_obs = 0
    /\ data_index = NULL
    /\ model_name = ""
    /\ model = NULL
    /\ trace = NULL
    /\ events = NULL
    /\ argsort_ties = "stable"
    /\ first_nearby = NULL
    /\ \E prices \in {NULL, ServicePrices}, key_events \in {NULL, ServiceEvents} :
          \E association \in AssociationFiles :
             /\ (prices = NULL /\ key_events = NULL) \/ association = NULL
             /\ fs = [prices |-> prices, key_events |-> key_events,
                      association |-> association, nearby |-> NULL]
    /\ loader = NULL
    /\ analyzer = NULL
    /\ data_service = NewService
    /\ rng = NULL
    /\ sampled = {}
    /\ ret = [op |-> "none", status |-> 200]

NextService ==
    \/ get_change_points
    \/ \E t \in 1..MaxRequests, request \in Requests :
          receive(t, request[1], request[2])
    \/ \E t \in 1..MaxRequests : check_cache(t)
    \/ \E t \in 1..MaxRequests : load_source(t)
    \/ \E t \in 1..MaxRequests : respond(t)

SpecService == InitService /\ [][NextService]_vars

(***************************************************************************)
(* sample with its random_seed: two calls compared                         *)
(***************************************************************************)
\* the arguments of pm.sample on which the draws of a seeded call depend
stream_key(m, draws, tune, chains, target_accept, random_seed) ==
    [model |-> m, draws |-> draws, tune |-> tune, chains |-> chains,
     target_accept |-> target_accept, random_seed |-> random_seed]

\* sample that leaves the seed out of the call of pm.sample
seed_dropped(random_seed) == NULL

\* random_seed=random_seed: the seed reaches pm.sample as given
seed_passed(random_seed) == random_seed

\* the traces compared: tau is the same at every draw, at one end of its range
StreamTraces(m, chains, draws) ==
    {InferenceData(m, chains, draws, const_array(chains, draws, v)) :
        v \in {m.lower, m.upper}}

\* pm.sample with a seed: the generator's stream is a function of the call,
\* so a call that repeats the first call has the outcome the first had;
\* without a seed the generator starts from fresh entropy
pm_sample_seeded(m, draws, tune, chains, target_accept, seed) ==
    IF /\ seed # NULL
       /\ rng # NULL
       /\ rng.key = stream_key(m, draws, tune, chains, target_accept, seed)
    THEN {rng.outcome}
    ELSE {[raised |-> TRUE]} \cup
         {[raised |-> FALSE, trace |-> t] : t \in StreamTraces(m, chains, draws)}

\* sample(draws, tune, chains, target_accept, random_seed)
sample_with(draws, tune, chains, target_accept, random_seed) ==
    /\ constructed
    /\ IF model = NULL
       THEN /\ ret' = [op |-> "sample", status |-> "error",
                       error |-> "Model must be built before sampling",
                       entered |-> FALSE]
            /\ UNCHANGED <<trace, rng, sampled>>
       ELSE LET seed == seed_passed(random_seed)
                args == [random_seed |-> random_seed, chains |-> chains,
                         draws |-> draws, tune |-> tune]
            IN  \E outcome \in pm_sample_seeded(model, draws, tune, chains,
                                                target_accept, seed) :
                   /\ trace' = trace_after_sample(trace, outcome)
                   /\ rng' = IF sampled = {} /\ seed # NULL
                             THEN [key |-> stream_key(model, draws, tune, chains,
                                                      target_accept, seed),
                                   outcome |-> outcome]
                             ELSE rng
                   /\ sampled' = IF sampled = {}
                                 THEN {[args |-> args, target_accept |-> target_accept,
                                        outcome |-> outcome]}
                                 ELSE sampled
                   /\ ret' = [op |-> "sample",
                              status |-> IF outcome.raised THEN "error" ELSE "ok",
                              entered |-> TRUE, repeat |-> sampled # {},
                              args |-> args, target_accept |-> target_accept,
                              outcome |-> outcome]
    /\ UNCHANGED <<constructed, n_obs, data_index, model_name, model, associator,
                   fs, loader, analyzer, data_service>>

Seeds == {NULL, Some(42)}
TuneSteps == {500, 1000}
TargetAccepts == {90, 95}

InitSeed ==
    /\ constructed = TRUE
    /\ n_obs = MinObs
    /\ data_index = RangeIndex(MinObs)
    /\ model_name = "cp"
    /\ model = NULL
    /\ trace = NULL
    /\ events = NULL
    /\ argsort_ties = "stable"
    /\ first_nearby = NULL
    /\ fs = NULL
    /\ loader = NULL
    /\ analyzer = NULL
    /\ data_service = NULL
    /\ rng = NULL
    /\ sampled = {}
    /\ ret = [op |-> "__init__", status |-> "ok", len |-> MinObs]

NextSeed ==
    \/ build_model
    \/ \E draws \in {1, MaxDraws}, tune \in TuneSteps :
          \E target_accept \in TargetAccepts, random_seed \in Seeds :
             sample_with(draws, tune, MaxChains, target_accept, random_seed)

SpecSeed == InitSeed /\ [][NextSeed]_vars

(***************************************************************************)
(* The association script (src/notebooks/02d_associate_events.py)          *)
(***************************************************************************)
EpochDay == 0              \* 1970-01-01, the origin of pd.to_datetime of a number
script_window_days == 90   \* window_days of the script's two calls

\* pd.to_datetime of a value read from the model's index: a Timestamp is
\* itself; an integer is that number of nanoseconds after the epoch, a
\* moment of the epoch's day
pd_to_datetime(value, index) ==
    IF index.kind = "DatetimeIndex" THEN value ELSE EpochDay

\* the date that the script hands to the event search: the converted
\* change_point_date of the results when there is one and it is truthy,
\* else the date at position tau_median of returns_indexed, of
\* data_indexed, or the last date
script_cp_date(tau_median, index, returns_dates, data_dates) ==
    LET lookup == index_getitem(index, tau_median)
    IN  IF ~lookup.raised /\ lookup.value # 0
        THEN pd_to_datetime(lookup.value, index)
        ELSE IF tau_median < Len(returns_dates) THEN returns_dates[tau_median + 1]
        ELSE IF tau_median < Len(data_dates) THEN data_dates[tau_median + 1]
        ELSE data_dates[Len(data_dates)]

\* the row of change_point_association.csv, of which the model keeps the
\* change point and the closest event
association_row(cp_date, tau_median, association) ==
    [change_point_date |-> DateText(cp_date),
     change_point_obs |-> Number(tau_median),
     closest_event |-> IF association.closest_event # NULL
                       THEN Text(association.closest_event.Event_Description)
                       ELSE NaNCell,
     closest_event_date |-> IF association.closest_event # NULL
                            THEN DateText(association.closest_event.Event_Date)
                            ELSE NaNCell]

NearbyColumns == <<"Event_Date", "Event_Description", "Days_Difference", "Days_Abs">>

\* reports/nearby_events.csv after the run: written when events were found
nearby_file_after(old, nearby) ==
    IF Len(nearby) > 0 THEN File(NearbyColumns, nearby) ELSE old

\* one run of main(): load, returns, model, sample, summaries, catalogue,
\* search, association, statement, the two files.  An exception anywhere
\* ends the run before anything is written.  The sampler's outcome is the
\* value of tau, the same at every draw, or an exception.
main(outcome) ==
    /\ fs # NULL
    /\ LET failed(error) ==
               /\ ret' = [op |-> "main", status |-> "error", error |-> error]
               /\ UNCHANGED fs
       IN  \E loaded \in load_outcomes(fs.prices, argsort_ties) :
           IF loaded.raised
           THEN failed("DataLoadError")
           ELSE \E data_dates \in {[k \in DOMAIN loaded.df.rows |-> loaded.df.rows[k].Date]},
                   prices \in {[k \in DOMAIN loaded.df.rows |-> loaded.df.rows[k].Price]},
                   returns \in {returns_of(loaded.df, "log")} :
                LET n_prices == Len(data_dates)
                    n_returns == Len(returns.values)
                    returns_dates == [k \in 1..n_returns |-> data_dates[k + 1]]
                IN  IF too_short(n_returns) \/ outcome.raised
                    THEN failed("ChangePointModelError")
                    ELSE IF fs.key_events = NULL
                    THEN failed("EventAssociationError")
                    ELSE /\ outcome.tau \in tau_lower..tau_upper(n_returns)
                         /\ \E tau_median \in {int_median(<<outcome.tau>>)},
                               catalogue \in {load_events(fs.key_events.rows, argsort_ties)} :
                            \E cp_date \in {script_cp_date(tau_median, returns.index,
                                                            returns_dates, data_dates)} :
                            \E nearby \in {nearby_events_of(catalogue.rows, cp_date,
                                                script_window_days, argsort_ties)} :
                            LET before == SubSeq(prices, 1, tau_median)
                                after == SubSeq(prices, tau_median + 1, n_prices)
                                association ==
                                    association_of(cp_date, 1, 1,
                                        Some(SumSeq(before) \div Len(before)),
                                        Some(SumSeq(after) \div Len(after)),
                                        script_window_days, nearby)
                            IN  /\ fs' = [fs EXCEPT
                                      !.association =
                                          File(AssociationColumns,
                                               <<association_row(cp_date, tau_median,
                                                                 association)>>),
                                      !.nearby = nearby_file_after(fs.nearby, nearby)]
                                /\ ret' = [op |-> "main", status |-> "ok",
                                           tau_median |-> tau_median,
                                           cp_date |-> cp_date,
                                           returns_dates |-> returns_dates,
                                           nearby_events |-> nearby]
    /\ UNCHANGED <<instance, associator, loader, analyzer, data_service, rng, sampled>>

\* the price file of n daily rows with a flat price
ScriptPrices(n) ==
    File(<<"Date", "Price">>,
         [k \in 1..n |-> [Date |-> DateCell("%d-%b-%y", date_of_row(k - 1)),
                          Price |-> PriceCell(TRUE, 2)]])

\* event days: within the window of the epoch's day alone, within the
\* window of the dates of the series
ScriptEventDays == {-50, 105}

ScriptCatalogues ==
    {NULL} \cup
    {File(<<"Event_Date", "Event_Description">>, CatalogueRows(dates)) :
        dates \in {<<>>} \cup {<<d>> : d \in ScriptEventDays}
                  \cup {<<d, e>> : d, e \in ScriptEventDays}}

\* the catalogue is edited or removed between two runs
replace_key_events(file) ==
    /\ fs # NULL
    /\ fs.key_events # file
    /\ fs' = [fs EXCEPT !.key_events = file]
    /\ ret' = [op |-> "none", status |-> "ok"]
    /\ UNCHANGED <<instance, associator, loader, analyzer, data_service, rng, sampled>>

InitScript ==
    /\ constructed = FALSE
    /\ n_obs = 0
    /\ data_index = NULL
    /\ model_name = ""
    /\ model = NULL
    /\ trace = NULL
    /\ events = NULL
    /\ argsort_ties \in TieOrders
    /\ first_nearby = NULL
    /\ \E prices \in {NULL} \cup {ScriptPrices(n) : n \in MinObs..(MaxObs + 1)} :
          \E key_events \in ScriptCatalogues :
             fs = [prices |-> prices, key_events |-> key_events,
                   association |-> NULL, nearby |-> NULL]
    /\ loader = NULL
    /\ analyzer = NULL
    /\ data_service = NULL
    /\ rng = NULL
    /\ sampled = {}
    /\ ret = [op |-> "none", status |-> "ok"]

NextScript ==
    \/ \E outcome \in {[raised |-> TRUE]} \cup
                      {[raised |-> FALSE, tau |-> tau] : tau \in tau_lower..tau_upper(MaxObs)} :
          main(outcome)
    \/ \E file \in ScriptCatalogues : replace_key_events(file)

SpecScript == InitScript /\ [][NextScript]_vars

(***************************************************************************)
(* Properties of the life cycle                                            *)
(***************************************************************************)
\* C1: for every tau in [1, N-1] and every index i in [0, N), observation i
\* gets mu1 exactly when i < tau and mu2 exactly when i >= tau, so the
\* observation at i = tau is in the after regime.
C1_SwitchRule ==
    model # NULL =>
        \A tau \in model.lower..model.upper, i \in 0..(n_obs - 1) :
            /\ (model.mu[tau][i] = "mu1") <=> (i < tau)
            /\ (model.mu[tau][i] = "mu2") <=> (i >= tau)

TauDraws(t) ==
    {t.posterior[v][c][d] : v \in {w \in Range(t.vars) : name_matches(w, "tau")},
                            c \in 1..t.chains, d \in 1..t.draws}

\* C2: every tau value of the draws that sample stored or returned, in every
\* chain and at every draw, lies in [1, N-1].
C2_TauInRange ==
    /\ trace # NULL => TauDraws(trace) \subseteq 1..(n_obs - 1)
    /\ (ret.op = "sample" /\ ret.status = "ok") =>
           TauDraws(ret.value) \subseteq 1..(n_obs - 1)

\* C2 witness: a stored trace of two chains with a draw at each end of the range
C2_Witness ==
    /\ trace # NULL
    /\ trace.chains = 2
    /\ {1, n_obs - 1} \subseteq TauDraws(trace)

\* C3: a series shorter than 10 is rejected before any model or draw exists,
\* a series of exactly 10 is accepted, and no instance has n_obs < 10.
C3_MinimumLength ==
    /\ constructed => n_obs >= 10
    /\ ~constructed => (model = NULL /\ trace = NULL)
    /\ ret.op = "__init__" =>
           /\ (ret.status = "error") <=> (ret.len < 10)
           /\ (ret.status = "ok") <=> (ret.len >= 10)
           /\ (ret.status = "ok") => (constructed /\ n_obs = ret.len)
           /\ (ret.status = "error") => ~constructed

\* C3 witness: a series of 9 observations has just been rejected
C3_Witness == ret.op = "__init__" /\ ret.status = "error" /\ ret.len = 9

\* C4: sample before build_model fails with the model-not-built error, makes
\* no backend call and leaves the trace unset; stored draws imply a built model.
C4_SampleNeedsModel ==
    /\ (ret.op = "sample" /\ model = NULL) =>
           /\ ret.status = "error"
           /\ ret.error = "Model must be built before sampling"
           /\ ret.pm_calls = 0
           /\ trace = NULL
    /\ trace # NULL => model # NULL

\* C4 witness: sample was called on an instance whose model is not built
C4_Witness == ret.op = "sample" /\ model = NULL /\ ret.status = "error"

\* C5: when the backend raises during a sample call, it was invoked exactly
\* once by that call, the caller gets the error, and the stored draws are
\* the ones stored before the call.
C5_NoRetry ==
    [][(/\ ret'.op = "sample"
        /\ model # NULL)
       => /\ ret'.pm_calls = 1
          /\ (ret'.status = "error") => (trace' = trace)
          /\ (ret'.status = "error") => (ret'.error = "Error during sampling")]_vars

\* C5 witness: a sample call failed in the backend while earlier draws are stored
C5_Witness ==
    /\ ret.op = "sample" /\ ret.status = "error"
    /\ ret.error = "Error during sampling"
    /\ trace # NULL

(***************************************************************************)
(* Properties of check_convergence                                         *)
(***************************************************************************)
Tracked == {"tau", "mu1", "mu2", "sigma"}

\* a variable carries the expected name, verbatim or as "<prefix>::name"
Carries(v, name) ==
    \/ v = <<name>>
    \/ Len(v) >= 2 /\ v[Len(v)] = name /\ v[Len(v) - 1] = "::"

\* position in the trace of the first variable carrying the name, 0 if none
FirstCarrier(t, name) ==
    IF \E k \in DOMAIN t.vars : Carries(t.vars[k], name)
    THEN MinOf({k \in DOMAIN t.vars : Carries(t.vars[k], name)})
    ELSE 0

MissingTracked(t) == {name \in Tracked : FirstCarrier(t, name) = 0}

\* the variables the diagnostics are computed for
UsedVars(t) ==
    IF MissingTracked(t) = Tracked THEN Range(t.vars)
    ELSE {t.vars[FirstCarrier(t, name)] : name \in Tracked \ MissingTracked(t)}

CheckedTrace == ret.op = "check_convergence" /\ trace # NULL

\* C6: with all four tracked parameters in the trace and R-hat computed,
\* check_convergence returns normally, with converged = true exactly when
\* the R-hat of tau, mu1, mu2 and sigma are all strictly below 1.01, and
\* converged = false otherwise (one of them at 1.01, above, or NaN).
C6_ConvergedIffAllBelow ==
    (CheckedTrace /\ MissingTracked(trace) = {} /\ trace.has_r_hat) =>
        /\ ret.status = "ok"
        /\ ret.value.converged \in {"True", "False"}
        /\ (ret.value.converged = "True") <=>
               (\A name \in Tracked :
                    LET r == trace.r_hat[trace.vars[FirstCarrier(trace, name)]]
                    IN  r \in 0..100)

\* C6 witness: three parameters at 1.00 and one at exactly 1.01, verdict false
C6_Witness ==
    /\ CheckedTrace /\ MissingTracked(trace) = {} /\ trace.has_r_hat
    /\ ret.status = "ok" /\ ret.value.converged = "False"
    /\ Cardinality({v \in Range(trace.vars) : trace.r_hat[v] = 101}) = 1
    /\ Cardinality({v \in Range(trace.vars) : trace.r_hat[v] = 100}) = 3

\* C7 as stated: with some or all of the expected parameters missing,
\* check_convergence returns a report with a null verdict that records the
\* available variables.
C7_NullVerdictWhenMissing ==
    (CheckedTrace /\ MissingTracked(trace) # {}) =>
        /\ ret.status = "ok"
        /\ ret.value.converged = "None"
        /\ ret.value.available_vars = trace.vars

\* C7 amended: with some or all of the expected parameters missing from the
\* stored draws, check_convergence does not fail and records the available
\* variables; the verdict is null exactly when the
\* summary has no r_hat column, and otherwise it is true exactly when every
\* variable used (the expected ones found, or all when none is found) has
\* R-hat below 1.01.
C7_VerdictOverFoundVars ==
    (CheckedTrace /\ MissingTracked(trace) # {}) =>
        /\ ret.status = "ok"
        /\ ret.value.available_vars = trace.vars
        /\ (ret.value.converged = "None") <=> ~trace.has_r_hat
        /\ trace.has_r_hat =>
              /\ ret.value.converged \in {"True", "False"}
              /\ (ret.value.converged = "True") <=>
                     (\A v \in UsedVars(trace) : trace.r_hat[v] \in 0..100)

\* C7 witness: tau and sigma are missing and the verdict is a boolean
C7_Witness ==
    /\ CheckedTrace /\ {"tau", "sigma"} \subseteq MissingTracked(trace)
    /\ MissingTracked(trace) # Tracked
    /\ ret.status = "ok" /\ ret.value.converged = "True"

\* C8 as stated: when the expected names are not found verbatim among the
\* available variables (none of them is), the diagnostics use all available
\* variables.
C8_FallbackWhenNotVerbatim ==
    (CheckedTrace /\ ret.status = "ok"
        /\ \A name \in Tracked : <<name>> \notin Range(trace.vars)) =>
        ret.value.summary.index = trace.vars

\* C8 amended: an expected name resolves to the first available variable
\* equal to it or ending in "::name"; the diagnostics use all available
\* variables only when none of the four names resolves, and otherwise
\* exactly the resolved variables; the report records the available
\* variables and the rows of the variables used, and has no entry naming
\* the resolution path.
C8_FallbackOnlyWhenNoneFound ==
    (CheckedTrace /\ ret.status = "ok") =>
        /\ Range(ret.value.summary.index) = UsedVars(trace)
        /\ MissingTracked(trace) = Tracked => ret.value.summary.index = trace.vars
        /\ Len(ret.value.summary.index) = Cardinality(UsedVars(trace))
        /\ ret.value.available_vars = trace.vars
        /\ trace.has_r_hat => DOMAIN ret.value.r_hat = UsedVars(trace)
        /\ DOMAIN ret.value = {"converged", "r_hat", "summary", "available_vars"}

\* C8 witness: only a prefixed tau resolves, next to a foreign variable that
\* is left out of the diagnostics
C8_Witness ==
    /\ CheckedTrace /\ ret.status = "ok"
    /\ ret.value.summary.index = <<<<"cp", "::", "tau">>>>
    /\ <<"other">> \in Range(trace.vars)

(***************************************************************************)
(* Properties of the summaries                                             *)
(***************************************************************************)
Cells(t) == (1..t.chains) \X (1..t.draws)

\* position of draw d of chain c among the flattened draws
FlatPos(t, c, d) == (c - 1) * t.draws + d

Draws(t, name) == t.posterior[t.vars[FirstCarrier(t, name)]]

\* C9: impact is computed per draw as mu2[k] - mu1[k] over the flattened
\* draws paired by position, impact_mean is the mean of these differences,
\* and it equals mean(mu2 samples) - mean(mu1 samples).
C9_PairedImpact ==
    (ret.op = "get_parameter_posteriors" /\ ret.status = "ok") =>
        LET r == ret.value
            n == trace.chains * trace.draws
        IN  /\ DOMAIN r.impact_samples = 1..n
            /\ \A cell \in Cells(trace) :
                   r.impact_samples[FlatPos(trace, cell[1], cell[2])] =
                       Draws(trace, "mu2")[cell[1]][cell[2]]
                       - Draws(trace, "mu1")[cell[1]][cell[2]]
            /\ r.impact_mean.den = n
            /\ r.impact_mean.num = SumSeq(r.impact_samples)
            /\ r.mu1_mean.den = n /\ r.mu1_mean.num = SumSeq(r.mu1_samples)
            /\ r.mu2_mean.den = n /\ r.mu2_mean.num = SumSeq(r.mu2_samples)
            /\ FracEq(r.impact_mean, FracSub(r.mu2_mean, r.mu1_mean))

\* C9 witness: two chains of two draws whose per-draw impacts differ in sign
C9_Witness ==
    /\ ret.op = "get_parameter_posteriors" /\ ret.status = "ok"
    /\ trace.chains = 2 /\ trace.draws = 2
    /\ \E j, k \in DOMAIN ret.value.impact_samples :
          ret.value.impact_samples[j] < 0 /\ ret.value.impact_samples[k] > 0
    /\ ret.value.impact_mean.num # 0

Freq(t, v) == Cardinality({cell \in Cells(t) : Draws(t, "tau")[cell[1]][cell[2]] = v})

\* C10: tau_mode is a most frequent value of the tau draws and, among the
\* values of the highest frequency, the smallest one, whatever the order
\* of the draws.
C10_ModeIsSmallestMostFrequent ==
    (ret.op = "get_change_point_posterior" /\ ret.status = "ok") =>
        LET m == ret.value.tau_mode
        IN  /\ Freq(trace, m) >= 1
            /\ \A v \in 1..n_obs :
                   /\ Freq(trace, v) <= Freq(trace, m)
                   /\ Freq(trace, v) = Freq(trace, m) => m <= v

\* C10 witness: two values tie for the highest frequency and the larger one
\* comes first in the draws
C10_Witness ==
    /\ ret.op = "get_change_point_posterior" /\ ret.status = "ok"
    /\ LET first == Draws(trace, "tau")[1][1]
       IN  /\ first > ret.value.tau_mode
           /\ Freq(trace, first) = Freq(trace, ret.value.tau_mode)
           /\ Freq(trace, first) = 2

(***************************************************************************)
(* Properties of the interval and of the date of the change point          *)
(***************************************************************************)
Summarised == ret.op = "get_change_point_posterior" /\ ret.status = "ok"

TauSamples(t) == flatten(Draws(t, "tau"), t.chains, t.draws)

\* number of the samples s inside [a, b]
Inside(s, a, b) == Cardinality({k \in DOMAIN s : a <= s[k] /\ s[k] <= b})

\* 40 * np.percentile(s, 2.5 * q40) by linear interpolation between the
\* two nearest order statistics: the position is q40 * (n - 1) / 40
percentile_x40(s, q40) ==
    LET sorted == np_sort(s)
        pos == q40 * (Len(s) - 1)
        below == (pos \div 40) + 1
    IN  IF pos % 40 = 0 THEN 40 * sorted[below]
        ELSE 40 * sorted[below] + (pos % 40) * (sorted[below + 1] - sorted[below])

\* C11 as stated: the reported interval is the narrowest interval of sample
\* values holding at least 95% of the flattened tau draws, and it is never
\* wider than the equal-tailed interval [2.5th, 97.5th percentile] of the
\* same draws.
C11_HdiWithinEqualTailed ==
    Summarised =>
        LET s == TauSamples(trace)
            lo == ret.value.tau_lower_95
            hi == ret.value.tau_upper_95
        IN  /\ 100 * Inside(s, lo, hi) >= 95 * Len(s)
            /\ \A a, b \in Range(s) :
                   (a <= b /\ 100 * Inside(s, a, b) >= 95 * Len(s)) => b - a >= hi - lo
            /\ 40 * (hi - lo) <= percentile_x40(s, 39) - percentile_x40(s, 1)

\* C11 amended: the reported interval has sample values as its ends, holds
\* at least floor(0.95 * n) + 1 of the n flattened tau draws (so at least
\* 95% of them), and is the narrowest interval of sample values that holds
\* that many, the lowest one among the narrowest; nothing bounds its width by
\* the width of the interpolated equal-tailed interval.
C11_NarrowestWindow ==
    Summarised =>
        LET s == TauSamples(trace)
            lo == ret.value.tau_lower_95
            hi == ret.value.tau_upper_95
            need == ((95 * Len(s)) \div 100) + 1
        IN  /\ lo \in Range(s) /\ hi \in Range(s) /\ lo <= hi
            /\ Inside(s, lo, hi) >= need
            /\ 100 * Inside(s, lo, hi) >= 95 * Len(s)
            /\ \A a, b \in Range(s) :
                   (a <= b /\ Inside(s, a, b) >= need) =>
                       \/ b - a > hi - lo
                       \/ b - a = hi - lo /\ lo <= a

\* C11 witness: of two windows over more than twenty draws the narrower one
\* is reported, and it leaves a draw out
C11_Witness ==
    /\ Summarised
    /\ Len(TauSamples(trace)) > 20
    /\ Inside(TauSamples(trace), ret.value.tau_lower_95, ret.value.tau_upper_95)
           < Len(TauSamples(trace))
    /\ ret.value.tau_lower_95 < ret.value.tau_upper_95

\* C12: with a date index, change_point_date is the date of the observation
\* at position tau_median (counted from 0) when that is a position of the
\* series, and null when the position is beyond the series; the call does
\* not fail in either case.
C12_DateOfMedianPosition ==
    /\ (ret.op = "get_change_point_posterior" /\ trace # NULL
           /\ FirstCarrier(trace, "tau") # 0) => ret.status = "ok"
    /\ (Summarised /\ data_index.kind = "DatetimeIndex") =>
           LET i == ret.value.tau_median
           IN  /\ i \in 0..(n_obs - 1) =>
                      ret.value.change_point_date = data_index.labels[i + 1]
               /\ i >= n_obs => ret.value.change_point_date = NULL

\* C12 witness: the median of two draws is truncated to the last position
\* of the series and the date of the last observation is reported
C12_Witness ==
    /\ Summarised /\ data_index.kind = "DatetimeIndex"
    /\ Len(TauSamples(trace)) = 2
    /\ TauSamples(trace)[1] # TauSamples(trace)[2]
    /\ ret.value.tau_median = n_obs - 1
    /\ ret.value.change_point_date = date_of_row(n_obs - 1)

\* the median position lies beyond the series and the date is null
C12_BeyondSeries ==
    /\ Summarised /\ data_index.kind = "DatetimeIndex"
    /\ ret.value.tau_median >= n_obs
    /\ ret.value.change_point_date = NULL

(***************************************************************************)
(* Properties of the readers                                               *)
(***************************************************************************)
Unresolved(t) == {name \in {"mu1", "mu2", "sigma"} : FirstCarrier(t, name) = 0}

\* C13: with stored draws, get_parameter_posteriors fails with the
\* missing-variable error exactly when at least one of mu1, mu2, sigma
\* resolves neither verbatim nor as "<prefix>::name"; the error names exactly
\* the unresolved ones, each once; when all three resolve the call returns.
C13_MissingExactly ==
    (ret.op = "get_parameter_posteriors" /\ trace # NULL) =>
        /\ (ret.status = "error") <=> (Unresolved(trace) # {})
        /\ (ret.status = "ok") <=> (Unresolved(trace) = {})
        /\ ret.status = "error" =>
               /\ ret.error = "Variables not found in trace"
               /\ Range(ret.missing) = Unresolved(trace)
               /\ Len(ret.missing) = Cardinality(Unresolved(trace))

\* C13 witness: mu1 resolves by its prefixed name, mu2 and sigma do not
\* resolve, and the error names the two
C13_Witness ==
    /\ ret.op = "get_parameter_posteriors" /\ ret.status = "error"
    /\ <<"cp", "::", "mu1">> \in Range(trace.vars)
    /\ <<"mu1">> \notin Range(trace.vars)
    /\ ret.missing = <<"mu2", "sigma">>

\* all three resolve while tau is missing, and the call returns
C13_ReturnsWithoutTau ==
    /\ ret.op = "get_parameter_posteriors" /\ ret.status = "ok"
    /\ FirstCarrier(trace, "tau") = 0

Readers == {"check_convergence", "get_change_point_posterior",
            "get_parameter_posteriors"}

\* C14: a call of check_convergence, get_change_point_posterior or
\* get_parameter_posteriors leaves the model and the stored draws (and the
\* rest of the instance) as they were, and returns the no-trace error
\* whenever no draws are stored.
C14_ReadersReadOnly ==
    [][ret'.op \in Readers
       => /\ model' = model
          /\ trace' = trace
          /\ <<constructed, n_obs, data_index, model_name>>' =
                 <<constructed, n_obs, data_index, model_name>>
          /\ trace = NULL => (ret'.status = "error"
                              /\ ret'.error = "No trace available")]_vars

\* C14 witness: a summary was returned from stored draws after an earlier
\* reader call, and the draws are still stored
C14_Witness ==
    /\ ret.op = "get_parameter_posteriors" /\ ret.status = "ok"
    /\ trace # NULL /\ model # NULL
    /\ trace.chains = 2

\* a reader was called before any draws were stored
C14_NoDraws == ret.op \in Readers /\ trace = NULL /\ ret.status = "error"

(***************************************************************************)
(* Properties of the event search                                          *)
(***************************************************************************)
Found == ret.op = "find_nearby_events" /\ ret.status = "ok"

Associated == ret.op = "associate_change_point" /\ ret.status = "ok"

\* the catalogue positions whose date is within window_days of the date
InWindow(date, window_days) ==
    {j \in DOMAIN events.rows :
        /\ events.rows[j].Event_Date >= date - window_days
        /\ events.rows[j].Event_Date <= date + window_days}

\* C15: find_nearby_events returns exactly the catalogue records dated
\* within [date - window_days, date + window_days], both ends included, each
\* once and with its signed day offset, so every |Days_Difference| is at
\* most window_days.
C15_WindowExactly ==
    Found =>
        LET date == ret.change_point_date
            window_days == ret.window_days
            res == ret.value
        IN  /\ Len(res) = Cardinality(InWindow(date, window_days))
            /\ \A j \in InWindow(date, window_days) :
                   \E k \in DOMAIN res :
                      /\ res[k].Event_Description = events.rows[j].Event_Description
                      /\ res[k].Event_Date = events.rows[j].Event_Date
            /\ \A k \in DOMAIN res :
                   /\ \E j \in InWindow(date, window_days) :
                         /\ res[k].Event_Description = events.rows[j].Event_Description
                         /\ res[k].Event_Date = events.rows[j].Event_Date
                   /\ res[k].Days_Difference = res[k].Event_Date - date
                   /\ res[k].Days_Difference <= window_days
                   /\ res[k].Days_Difference >= -window_days

\* C15 witness: the events at both ends of the window are returned and the
\* third event of the catalogue, a day past the end, is not
C15_Witness ==
    /\ Found
    /\ Len(events.rows) = 3 /\ Len(ret.value) = 2
    /\ {ret.value[k].Days_Difference : k \in DOMAIN ret.value} = {-5, 5}
    /\ ret.window_days = 5

\* C16: the returned sequence is ordered by absolute day distance, nearest
\* first, and of two returned events at the same distance the one with the
\* earlier date comes first.
C16_NearestThenEarliest ==
    Found =>
        \A k, l \in DOMAIN ret.value :
            k < l =>
                /\ ret.value[k].Days_Abs <= ret.value[l].Days_Abs
                /\ ret.value[k].Days_Abs = ret.value[l].Days_Abs =>
                       ret.value[k].Event_Date <= ret.value[l].Event_Date

\* the order by distance alone, which holds on every platform
C16_NearestFirst ==
    Found =>
        \A k, l \in DOMAIN ret.value :
            k < l => ret.value[k].Days_Abs <= ret.value[l].Days_Abs

\* the records of the last search, whichever of the two methods made it
Nearby == IF Found THEN ret.value ELSE ret.value.nearby_events

\* C17: no call changes the loaded catalogue, and every search, by
\* find_nearby_events or inside associate_change_point, with the date and
\* window of the first search returns the records of the first search in
\* the same order.
C17_Idempotent ==
    [][/\ events # NULL => events' = events
       /\ (/\ ret'.op \in {"find_nearby_events", "associate_change_point"}
           /\ first_nearby # NULL
           /\ ret'.change_point_date = first_nearby.change_point_date
           /\ ret'.window_days = first_nearby.window_days)
          => /\ first_nearby'.nearby = first_nearby.nearby
             /\ (IF ret'.op = "find_nearby_events" THEN ret'.value
                 ELSE ret'.value.nearby_events) = first_nearby.nearby]_vars

\* C17 witness: the first search was repeated twice and the last call, a
\* find_nearby_events, returned two equidistant events
C17_Witness ==
    /\ Found
    /\ first_nearby # NULL
    /\ first_nearby.repeats = 2
    /\ first_nearby.change_point_date = ret.change_point_date
    /\ first_nearby.window_days = ret.window_days
    /\ Len(ret.value) = 2
    /\ ret.value[1].Days_Abs = ret.value[2].Days_Abs

\* the parts of C18 that do not concern the statement
SearchAndClosest ==
    /\ (Found /\ InWindow(ret.change_point_date, ret.window_days) = {}) =>
           ret.value = <<>>
    /\ Associated =>
           LET a == ret.value
           IN  IF InWindow(ret.change_point_date, ret.window_days) = {}
               THEN a.closest_event = NULL /\ a.nearby_events = <<>>
               ELSE /\ a.closest_event = a.nearby_events[1]
                    /\ \A j \in InWindow(ret.change_point_date, ret.window_days) :
                           a.closest_event.Days_Abs
                              <= abs(events.rows[j].Event_Date - ret.change_point_date)

Formatted == ret.op = "format_impact_statement" /\ ret.status = "ok"

\* C18 as stated: with no event in the window the search returns an empty
\* sequence, the association has a null closest_event and no nearby events,
\* and the statement formatted for that association has no event clause;
\* with events in the window closest_event is element 0 of the sorted list,
\* an event of minimal distance.
C18_NoEventNoClause ==
    /\ SearchAndClosest
    /\ (Formatted /\ ret.association.closest_event = NULL) =>
           ret.value.event_clause = NULL

\* C18 amended: as stated for the search and the association; the statement
\* has an event clause exactly when the caller passes a non-empty event
\* name, whatever the association holds, so the statement for an association
\* without events has no event clause when no name is passed.
C18_ClauseFollowsEventName ==
    /\ SearchAndClosest
    /\ Formatted =>
           /\ (ret.value.event_clause # NULL) <=>
                  (ret.event_name # NULL /\ ret.event_name # Some(""))
           /\ ret.value.event_clause # NULL => ret.value.event_clause = ret.event_name

\* C18 witness: the catalogue has events but none in the window, the
\* association has no closest event, and its statement, formatted without
\* an event name, has no event clause
C18_Witness ==
    /\ Formatted
    /\ Len(events.rows) > 0
    /\ ret.association.closest_event = NULL
    /\ ret.association.nearby_events = <<>>
    /\ ret.event_name = NULL
    /\ ret.value.event_clause = NULL

C19_BothPrices ==
    /\ Associated
    /\ ret.value.price_before = Some(60) /\ ret.value.price_after = Some(50)
    /\ ret.value.impact_usd = Some(-10)

\* C20: the direction word is "increase" exactly when impact_percent > 0
\* and "decrease" otherwise, also at 0; the magnitude is the absolute value
\* to the nearest hundredth, without a minus sign: -12.34 gives "decrease"
\* and "12.34%".
C20_DirectionAndMagnitude ==
    Formatted =>
        LET x == ret.association.impact_percent
            st == ret.value
        IN  /\ st.direction \in {"increase", "decrease"}
            /\ (st.direction = "increase") <=> (x > 0)
            /\ ~st.magnitude.minus_sign
            /\ 10 * st.magnitude.hundredths - abs(x) \in -5..5
            /\ x = -12340 => (st.direction = "decrease" /\ st.magnitude.hundredths = 1234)

\* C20 witness: the statement for an impact of exactly 0 percent says
\* "decrease" of 0.00%
C20_Witness ==
    /\ Formatted
    /\ ret.association.impact_percent = 0
    /\ ret.value.direction = "decrease"
    /\ ret.value.magnitude = [minus_sign |-> FALSE, hundredths |-> 0]

\* the statement for -12.34 percent says "decrease" of 12.34%
C20_Example ==
    /\ Formatted
    /\ ret.association.impact_percent = -12340
    /\ ret.value.direction = "decrease"
    /\ ret.value.magnitude = [minus_sign |-> FALSE, hundredths |-> 1234]

(***************************************************************************)
(* Properties of the construction of the EventAssociator                   *)
(***************************************************************************)
\* the rows are in ascending order of their dates
DateSorted(rows) ==
    \A k, l \in DOMAIN rows : k < l => rows[k].Event_Date <= rows[l].Event_Date

\* every row of a occurs as often in b
SameRows(a, b) ==
    /\ Len(a) = Len(b)
    /\ \A k \in DOMAIN a :
           Cardinality({j \in DOMAIN a : a[j] = a[k]})
              = Cardinality({j \in DOMAIN b : b[j] = a[k]})

\* C21: constructing an EventAssociator on a missing catalogue file fails
\* and leaves no instance; an instance comes into being only by loading an
\* existing file, with exactly the rows of that file sorted by date, so
\* every search runs against a loaded, date-sorted catalogue.
C21_MissingFileIsFatal ==
    [][/\ ret'.op = "EventAssociator" =>
             /\ (ret'.status = "error") <=> ~ret'.path_exists
             /\ ret'.status = "error" => events' = NULL
             /\ ret'.status = "ok" => SameRows(events'.rows, ret'.rows)
       /\ (events = NULL /\ events' # NULL) =>
             (ret'.op = "EventAssociator" /\ ret'.path_exists)
       /\ events' # NULL => DateSorted(events'.rows)
       /\ ret'.op \in {"find_nearby_events", "associate_change_point"} =>
             (events' # NULL /\ events' = events)]_vars

\* C21 witness: the construction on a missing file has failed and there is
\* no instance
C21_Witness ==
    /\ ret.op = "EventAssociator" /\ ret.status = "error"
    /\ ~ret.path_exists
    /\ events = NULL

\* a search has run on the catalogue loaded from an unsorted file
C21_SearchOnLoaded ==
    /\ Found
    /\ Len(events.rows) = 3
    /\ events.rows[1].Event_Description = "e3"

(***************************************************************************)
(* Properties of the regimes and of the relative impact                    *)
(***************************************************************************)
\* the observations to which the switch rule gives the mean named m
Regime(m, tau) == {i \in DOMAIN model.mu[tau] : model.mu[tau][i] = m}

\* C28: for every series length N >= 10 and every tau in [1, N-1] the switch
\* rule of the built model gives at least one observation to the before
\* regime and at least one to the after regime.
C28_BothRegimes ==
    model # NULL =>
        \A tau \in model.lower..model.upper :
            /\ Regime("mu1", tau) # {}
            /\ Regime("mu2", tau) # {}

\* the sign of a fraction; 0 also for the undefined quotient (den = 0)
Sign(f) ==
    IF f.den = 0 \/ f.num = 0 THEN 0
    ELSE IF (f.num > 0) = (f.den > 0) THEN 1 ELSE -1

\* C29: for every sample set with mean(mu1) # 0 the summary's impact_percent
\* is positive exactly when mean(mu2) exceeds mean(mu1), and so has the sign
\* of the impact_percent that associate_change_point derives from the same
\* means.
C29_PercentHasSignOfImpact ==
    (ret.op = "get_parameter_posteriors" /\ ret.status = "ok"
        /\ ret.value.mu1_mean.num # 0) =>
        LET r == ret.value
        IN  /\ (Sign(r.impact_percent) = 1)
                  <=> (Sign(FracSub(r.mu2_mean, r.mu1_mean)) = 1)
            /\ Sign(r.impact_percent) = Sign(r.impact_mean)

(***************************************************************************)
(* Properties of the loader and of the analyzer                            *)
(***************************************************************************)
\* C25: test_stationarity called with a method other than 'adf' or 'kpss'
\* raises ValueError to the caller.
C25_ValueErrorReachesCaller ==
    (ret.op = "test_stationarity" /\ ret.method \notin {"adf", "kpss"}) =>
        (ret.status = "error" /\ ret.error_type = "ValueError")

\* C26: get_data and compute_returns raise DataLoadError as long as no load
\* has succeeded; a load that fails raises DataLoadError and leaves the
\* loader as it was, not loaded if it was not; after a successful load
\* get_data returns the loaded records, and writing into the frame it
\* returned does not change the loader's data.
C26_LoaderLifecycle ==
    [][/\ (loader = NULL /\ ret'.op \in {"get_data", "compute_returns"}) =>
             (ret'.status = "error" /\ ret'.error_type = "DataLoadError")
       /\ (loader = NULL /\ loader' # NULL) =>
             (ret'.op = "load" /\ ret'.status = "ok" /\ ret'.value = loader')
       /\ (ret'.op = "load" /\ ret' # ret /\ fs.prices = NULL) => ret'.status = "error"
       /\ (ret'.op = "load" /\ ret'.status = "error" /\ ret' # ret) =>
             (ret'.error_type = "DataLoadError" /\ loader' = loader)
       /\ (loader # NULL /\ ret'.op = "get_data" /\ ret.op # "get_data") =>
             (ret'.status = "ok" /\ ret'.value = loader /\ loader' = loader)
       /\ (ret.op = "get_data" /\ ret'.op = "get_data") => loader' = loader]_vars

\* C26 witness: the frame that get_data returned was written into and the
\* loader's data is as it was loaded
C26_Witness ==
    /\ ret.op = "get_data" /\ ret.status = "ok"
    /\ ret.mutated
    /\ loader # NULL /\ loader # ret.value
    /\ loader.rows[1].Price = 4

\* a load on a missing file has failed on a loader that never loaded
C26_FailedLoad ==
    /\ ret.op = "load" /\ ret.status = "error"
    /\ ~ret.was_loaded /\ fs.prices = NULL
    /\ loader = NULL

(***************************************************************************)
(* Properties of the API                                                   *)
(***************************************************************************)
ChangePointsAnswered == ret.op = "get_change_points"

\* the answer for "nothing persisted": 200, count 0, no entry
EmptyAnswer ==
    /\ ret.status = 200
    /\ ret.payload.count = 0
    /\ ret.payload.change_points = <<>>

\* C22: the change-points endpoint answers 200 with count 0 and an empty
\* list whenever the file is absent or contains no row, 500 with an error
\* payload whenever the data service raises, and in every 200 answer count
\* is the number of entries of change_points.
C22_EmptyWheneverNoRow ==
    ChangePointsAnswered =>
        /\ (fs.association = NULL \/ fs.association.rows = <<>>) => EmptyAnswer
        /\ ret.status = 200 => ret.payload.count = Len(ret.payload.change_points)

\* C22 as amended: 200, count 0 and an empty list when the file is absent
\* or holds a header and no row; 500 with an error payload when the file
\* cannot be read (the service raises); 200 with the first row alone
\* otherwise; count is the number of entries in every 200 answer.
C22_ChangePointsAnswer ==
    ChangePointsAnswered =>
        LET file == fs.association
            unreadable == file # NULL /\ file.columns = <<>>
        IN  /\ (file = NULL \/ (~unreadable /\ file.rows = <<>>)) => EmptyAnswer
            /\ unreadable <=> ret.status = 500
            /\ ret.status = 500 => DOMAIN ret.payload = {"error"}
            /\ ret.status \in {200, 500}
            /\ ret.status = 200 => ret.payload.count = Len(ret.payload.change_points)
            /\ (file # NULL /\ ~unreadable /\ file.rows # <<>>) =>
                  ret.payload.change_points = <<json_row(file.rows[1])>>

\* C22 witness: a file of two rows was answered with its first row
C22_Witness ==
    /\ ChangePointsAnswered
    /\ fs.association # NULL /\ Len(fs.association.rows) = 2
    /\ ret.status = 200 /\ ret.payload.count = 1

\* the file of zero bytes was answered with 500
C22_UnreadableFile ==
    /\ ChangePointsAnswered
    /\ fs.association = ZeroBytes
    /\ ret.status = 500

\* C23: on one DataService the price series and the event catalogue are
\* each loaded from their source at most once, whatever the sequence or
\* interleaving of the requests.
C23_LoadedAtMostOnce ==
    data_service # NULL =>
        /\ data_service.price_loads <= 1
        /\ data_service.events_loads <= 1

(***************************************************************************)
(* Properties of the seed                                                  *)
(***************************************************************************)
\* a sample call that entered the sampler has returned or raised
Sampled == ret.op = "sample" /\ ret.entered

\* C24: two sample calls on models built from the same observation series
\* with the same random_seed, chain count, draw count and tuning count
\* return identical draws for every parameter, chain and draw position.
C24_SameSeedSameDraws ==
    Sampled =>
        \A first \in sampled : first.args = ret.args => first.outcome = ret.outcome

\* C24 as amended: the same holds when the random_seed is not None and the
\* two calls also have the same target_accept.
C24_SeedDeterminism ==
    Sampled =>
        \A first \in sampled :
            (/\ first.args = ret.args
             /\ first.target_accept = ret.target_accept
             /\ ret.args.random_seed # NULL) => first.outcome = ret.outcome

\* C24 witness: a second call with the seed, the counts and the
\* target_accept of the first has returned two chains of two draws, the
\* draws of the first call
C24_Witness ==
    /\ Sampled /\ ret.status = "ok" /\ ret.repeat
    /\ ret.args.random_seed = Some(42)
    /\ ret.args.chains = 2 /\ ret.args.draws = 2
    /\ \E first \in sampled :
          /\ first.args = ret.args /\ first.target_accept = ret.target_accept
          /\ first.outcome = ret.outcome
    /\ trace = ret.outcome.trace

\* two calls without a seed have returned different draws
C24_NoSeed ==
    /\ Sampled /\ ret.status = "ok" /\ ret.args.random_seed = NULL
    /\ \E first \in sampled :
          /\ first.args = ret.args /\ first.target_accept = ret.target_accept
          /\ ~first.outcome.raised
          /\ first.outcome # ret.outcome

(***************************************************************************)
(* Properties of the association script                                    *)
(***************************************************************************)
ScriptRan == ret.op = "main" /\ ret.status = "ok"

\* C27: the change-point date handed to the event search is the date of
\* the observation at the median tau index of the return series, the date
\* paired with that return, for every tau_median in [1, N-1].
C27_DateOfMedianReturn ==
    ScriptRan => ret.cp_date = ret.returns_dates[ret.tau_median + 1]

\* the rows of the nearby-events file, none when there is no file
nearby_rows(file) == IF file = NULL THEN <<>> ELSE file.rows

\* C30: after any sequence of runs the nearby-events file holds exactly the
\* nearby events of the change point in the association file, those of the
\* latest run: no rows of an earlier run remain when the latest found none.
C30_NearbyFileOfLatestRun ==
    ScriptRan =>
        /\ fs.association.rows[1].change_point_date = DateText(ret.cp_date)
        /\ nearby_rows(fs.nearby) = ret.nearby_events

====
